---- MODULE Spec2Model ----
(***************************************************************************)
(* Athena 3D CTU + constrained-transport integrator                        *)
(* (src/integrators/integrate_3d_ctu.c).                                   *)
(*                                                                         *)
(* Spec    : life cycle (integrate_init_3d, integrate_3d_ctu,              *)
(*           integrate_destruct_3d) and the twelve phases of one step as   *)
(*           a data-flow machine over the index ranges of the loops.       *)
(* SpecNum : the results of Steps 1-9 as arbitrary numbers, Steps 10-12    *)
(*           computed on them in exact integer arithmetic.                 *)
(***************************************************************************)
EXTENDS Integers, Sequences, FiniteSets, TLC

\* ------------------------------------------------------------------ bounds
NX1 == 2
NX2 == 2
NX3 == 2
MaxSteps == 2
NSeeds == 2

\* --------------------------------------------------------------- constants
nghost == 3
NPhases == 12

VARIABLES cfg, life, pc, phase, stepNo, trace, stale, etaDep, wrote, etah, etahMiss,
          calls, argStale, ptr, heap, nextBlk, allocN, attempts, failed,
          errmsg, touched, dblFree,
          U, B1i, B2i, B3i, x1Flux, x2Flux, x3Flux, emf1, emf2, emf3,
          emf1_cc, emf2_cc, emf3_cc, dhalf, phalf, remapEyiib, remapEyoib,
          dtodx, U0, seed, periodic,
          Ul_x1Face, Ur_x1Face, Ul_x2Face, Ur_x2Face, Ul_x3Face, Ur_x3Face,
          B1_x1Face, B2_x2Face, B3_x3Face,
          db_d, db_t, l_t, mdb_t

fvars == <<cfg, life, pc, phase, stepNo, trace, stale, etaDep, wrote, etah, etahMiss,
           calls, argStale, ptr, heap, nextBlk, allocN, attempts, failed,
           errmsg, touched, dblFree>>

\* the grid data and the scratch arrays as numbers (SpecNum)
nvars == <<U, B1i, B2i, B3i, x1Flux, x2Flux, x3Flux, emf1, emf2, emf3,
           emf1_cc, emf2_cc, emf3_cc, dhalf, phalf, remapEyiib, remapEyoib,
           dtodx, U0, seed, periodic,
           Ul_x1Face, Ur_x1Face, Ul_x2Face, Ur_x2Face, Ul_x3Face, Ur_x3Face,
           B1_x1Face, B2_x2Face, B3_x3Face>>

\* the field components of the interface states and the half-step face fields
\* (SpecMag)
hvars == <<Ul_x1Face, Ur_x1Face, Ul_x2Face, Ur_x2Face, Ul_x3Face, Ur_x3Face,
           B1_x1Face, B2_x2Face, B3_x3Face>>

HalfUnset ==
  /\ Ul_x1Face = <<>>
  /\ Ur_x1Face = <<>>
  /\ Ul_x2Face = <<>>
  /\ Ur_x2Face = <<>>
  /\ Ul_x3Face = <<>>
  /\ Ur_x3Face = <<>>
  /\ B1_x1Face = <<>>
  /\ B2_x2Face = <<>>
  /\ B3_x3Face = <<>>

\* what SpecNum leaves alone of the data-flow state
frest == <<life, trace, stale, etaDep, wrote, etah, etahMiss, calls, argStale,
           ptr, heap, nextBlk, allocN, attempts, failed, errmsg, touched,
           dblFree>>

\* the locals of the two limiters of the MHD source terms (SpecLim): the
\* difference of the field along the sweep axis, a transverse difference, and
\* the limited values of Steps 1b-3b and of Steps 5c-7c
lvars == <<db_d, db_t, l_t, mdb_t>>

LimUnset ==
  /\ db_d = 0
  /\ db_t = 0
  /\ l_t = 0
  /\ mdb_t = 0

vars == <<fvars, nvars, lvars>>

\* the numbers play no part in the data-flow machine
NumUnset ==
  /\ U = <<>>
  /\ B1i = <<>>
  /\ B2i = <<>>
  /\ B3i = <<>>
  /\ x1Flux = <<>>
  /\ x2Flux = <<>>
  /\ x3Flux = <<>>
  /\ emf1 = <<>>
  /\ emf2 = <<>>
  /\ emf3 = <<>>
  /\ emf1_cc = <<>>
  /\ emf2_cc = <<>>
  /\ emf3_cc = <<>>
  /\ dhalf = <<>>
  /\ phalf = <<>>
  /\ remapEyiib = <<>>
  /\ remapEyoib = <<>>
  /\ dtodx = <<>>
  /\ U0 = <<>>
  /\ seed = <<>>
  /\ periodic = <<>>
  /\ HalfUnset


\* ------------------------------------------------------------ grid indices
is == nghost
ie == nghost + NX1 - 1
js == nghost
je == nghost + NX2 - 1
ks == nghost
ke == nghost + NX3 - 1

Max2(a, b) == IF a >= b THEN a ELSE b

\* loop ranges relative to the live bounds, e.g. KR(-2,2) = ks-2..ke+2
KR(a, b) == (ks + a)..(ke + b)
JR(a, b) == (js + a)..(je + b)
IR(a, b) == (is + a)..(ie + b)

\* (mutant) first-sweep fluxes on the faces of the second sweep only
FaceRangeLive(lo, hi) == lo..(hi + 1)

\* faces of a first sweep along an axis with live cells lo..hi (Steps 1d, 2d, 3d)
FaceRange(lo, hi) == (lo - 1)..(hi + 2)

Cells3(kr, jr, ir) == {<<k, j, i>> : k \in kr, j \in jr, i \in ir}
V1(r) == {<<0, 0, n>> : n \in r}
V2(kr, jr) == {<<k, j, 0>> : k \in kr, j \in jr}

\* extents of the grid arrays (pG->U etc.): nx + 2*nghost cells per axis
GridBox == Cells3(0..(NX3 + 2*nghost - 1), 0..(NX2 + 2*nghost - 1),
                  0..(NX1 + 2*nghost - 1))

\* --------------------------------------------------------------- array names
Emf3D == <<"emf1", "emf2", "emf3", "emf1_cc", "emf2_cc", "emf3_cc">>
Eta3D == <<"eta1", "eta2", "eta3">>
Mhd1D == <<"Bxc", "Bxi">>
BFace3D == <<"B1_x1Face", "B2_x2Face", "B3_x3Face">>
Vec1D == <<"U1d", "W", "Wl", "Wr">>
Face3D == <<"Ul_x1Face", "Ur_x1Face", "Ul_x2Face", "Ur_x2Face",
            "Ul_x3Face", "Ur_x3Face">>
Flux3D == <<"x1Flux", "x2Flux", "x3Flux">>
Half3D == <<"dhalf", "phalf">>
Remap2D == <<"remapEyiib", "remapEyoib">>

SeqSet(s) == {s[n] : n \in DOMAIN s}

ScratchNames == SeqSet(Emf3D) \cup SeqSet(Eta3D) \cup SeqSet(Mhd1D)
                \cup SeqSet(BFace3D) \cup SeqSet(Vec1D) \cup SeqSet(Face3D)
                \cup SeqSet(Flux3D) \cup SeqSet(Half3D) \cup SeqSet(Remap2D)
GridNames == {"U", "B1i", "B2i", "B3i", "Phi",
              "x1MassFlux", "x2MassFlux", "x3MassFlux"}
ArrayNames == ScratchNames \cup GridNames

Is1D(a) == a \in SeqSet(Mhd1D) \cup SeqSet(Vec1D)
Is2D(a) == a \in SeqSet(Remap2D)

\* (mutant) scratch arrays one element short along x1
DimShort(a, N) ==
  IF a \in GridNames THEN <<NX3 + 2*nghost, NX2 + 2*nghost, NX1 + 2*nghost>>
  ELSE IF Is1D(a) THEN <<1, 1, Max2(Max2(N[1], N[2]), N[3]) - 1>>
  ELSE IF Is2D(a) THEN <<N[1], N[2], 1>>
  ELSE N

\* extents of array a when the scratch arrays were allocated for N = <<Nx3,Nx2,Nx1>>
Dim(a, N) ==
  IF a \in GridNames THEN <<NX3 + 2*nghost, NX2 + 2*nghost, NX1 + 2*nghost>>
  ELSE IF Is1D(a) THEN <<1, 1, Max2(Max2(N[1], N[2]), N[3])>>
  ELSE IF Is2D(a) THEN <<N[1], N[2], 1>>
  ELSE N

Extent(a, N) ==
  Cells3(0..(Dim(a, N)[1] - 1), 0..(Dim(a, N)[2] - 1), 0..(Dim(a, N)[3] - 1))

InExtent(y, e) ==
  /\ 0 <= y[1] /\ y[1] < e[1]
  /\ 0 <= y[2] /\ y[2] < e[2]
  /\ 0 <= y[3] /\ y[3] < e[3]

\* ------------------------------------------------------- read descriptors
\* off: element x reads a[x + d];  abs: reads the region set;
\* vec: 3D element x reads the 1D vector a at its sweep coordinate x[axis]+d;
\* pen: 1D element n reads the pencils of the 3D array a at axis coordinate n+d;
\* pln: 3D element <<k,j,i>> reads the 2D array a at [k][j]
Off(a, dk, dj, di) ==
  [kind |-> "off", arr |-> a, d |-> <<dk, dj, di>>, axis |-> 0, set |-> {}]
Abs(a, S) ==
  [kind |-> "abs", arr |-> a, d |-> <<0, 0, 0>>, axis |-> 0, set |-> S]
Vec(a, ax, dn) ==
  [kind |-> "vec", arr |-> a, d |-> <<0, 0, dn>>, axis |-> ax, set |-> {}]
Pen(a, ax, T, dn) ==
  [kind |-> "pen", arr |-> a, d |-> <<0, 0, dn>>, axis |-> ax, set |-> T]
Pln(a) ==
  [kind |-> "pln", arr |-> a, d |-> <<0, 0, 0>>, axis |-> 0, set |-> {}]

Src(x, r) ==
  CASE r.kind = "off" -> {<<x[1] + r.d[1], x[2] + r.d[2], x[3] + r.d[3]>>}
    [] r.kind = "abs" -> r.set
    [] r.kind = "vec" -> {<<0, 0, x[r.axis] + r.d[3]>>}
    [] r.kind = "pen" -> {[y EXCEPT ![r.axis] = x[3] + r.d[3]] : y \in r.set}
    [] r.kind = "pln" -> {<<x[1], x[2], 0>>}

\* one loop nest: writes array arr on the index set W, every element reading
\* the elements named by reads; call names the collaborator invoked per element
Op(a, W, reads, callee) ==
  [arr |-> a, W |-> W, reads |-> reads, call |-> callee]

ReadsMarked(st, x, reads) ==
  \E r \in reads : \E y \in Src(x, r) : y \in st[r.arr]

ApplyOp(st, op, inj) ==
  LET live == {r \in op.reads : st[r.arr] # {}}
  IN [st EXCEPT ![op.arr] =
        IF inj THEN @ \cup op.W
        ELSE IF live = {} THEN @ \ op.W
        ELSE (@ \ op.W) \cup {x \in op.W : ReadsMarked(st, x, live)}]

RECURSIVE ApplyOps(_, _, _, _)
ApplyOps(st, ops, n, injSolver) ==
  IF n > Len(ops) THEN st
  ELSE ApplyOps(ApplyOp(st, ops[n], injSolver /\ ops[n].call = "GET_FLUXES"),
                ops, n + 1, injSolver)

\* some collaborator call of ops is handed an argument marked in st
RECURSIVE ArgsMarked(_, _, _)
ArgsMarked(st, ops, n) ==
  IF n > Len(ops) THEN FALSE
  ELSE \/ /\ ops[n].call # ""
          /\ LET live == {r \in ops[n].reads : st[r.arr] # {}}
             IN live # {} /\ \E x \in ops[n].W : ReadsMarked(st, x, live)
       \/ ArgsMarked(ApplyOp(st, ops[n], FALSE), ops, n + 1)

OpsInBounds(ops, N) ==
  \A n \in DOMAIN ops :
    /\ LET e == Dim(ops[n].arr, N)
       IN \A x \in ops[n].W : InExtent(x, e)
    /\ \A r \in ops[n].reads :
         LET e == Dim(r.arr, N)
         IN \A x \in ops[n].W : \A y \in Src(x, r) : InExtent(y, e)

OpsArrays(ops) ==
  UNION {{ops[n].arr} \cup {r.arr : r \in ops[n].reads} : n \in DOMAIN ops}

WrittenBy(ops, a) ==
  UNION {ops[n].W : n \in {m \in DOMAIN ops : ops[m].arr = a}}

\* ------------------------------------------------- STEP 1: x1 sweep, 1D fluxes
Step1Ops(c) ==
  LET T    == Cells3(KR(-2, 2), JR(-2, 2), {0})
      Tj   == Cells3(KR(-2, 2), JR(-1, 3), {0})
      Tk   == Cells3(KR(-1, 3), JR(-2, 2), {0})
      all  == V1(IR(-nghost, nghost))
      face == V1(FaceRange(is, ie))
      F    == Cells3(KR(-2, 2), JR(-2, 2), FaceRange(is, ie))
      s1a  == <<Op("U1d", all, {Pen("U", 3, T, 0)}, "")>>
              \o (IF c.MHD
                  THEN <<Op("Bxc", all, {Pen("U", 3, T, 0)}, ""),
                         Op("Bxi", all, {Pen("B1i", 3, T, 0)}, ""),
                         Op("B1_x1Face", Cells3(KR(-2, 2), JR(-2, 2), IR(-nghost, nghost)),
                            {Off("B1i", 0, 0, 0)}, "")>>
                  ELSE <<>>)
      mb   == IF c.MHD THEN {Off("Bxc", 0, 0, 0)} ELSE {}
      lrb  == IF c.MHD THEN {Abs("Bxc", V1((is - 3)..(ie + 3)))} ELSE {}
      lrW  == {Abs("W", V1((is - 3)..(ie + 3)))} \cup lrb
      s1b  == <<Op("W", all, {Off("U1d", 0, 0, 0)} \cup mb, "Cons1D_to_Prim1D"),
                Op("Wl", face, lrW, "lr_states"),
                Op("Wr", face, lrW, "lr_states")>>
              \o (IF c.MHD
                  THEN <<Op("Wl", face,
                            {Off("Wl", 0, 0, 0),
                             Pen("B1i", 3, T, 0),
                             Pen("B1i", 3, T, -1),
                             Pen("B2i", 3, Tj, -1),
                             Pen("B2i", 3, T, -1),
                             Pen("B3i", 3, Tk, -1),
                             Pen("B3i", 3, T, -1),
                             Pen("U", 3, T, -1)}, ""),
                         Op("Wr", face,
                            {Off("Wr", 0, 0, 0),
                             Pen("B1i", 3, T, 1),
                             Pen("B1i", 3, T, 0),
                             Pen("B2i", 3, Tj, 0),
                             Pen("B2i", 3, T, 0),
                             Pen("B3i", 3, Tk, 0),
                             Pen("B3i", 3, T, 0),
                             Pen("U", 3, T, 0)}, "")>>
                  ELSE <<>>)
      s1c  == (IF c.StaticGravPot
               THEN <<Op("Wl", face, {Off("Wl", 0, 0, 0)}, "StaticGravPot"),
                      Op("Wr", face, {Off("Wr", 0, 0, 0)}, "StaticGravPot")>>
               ELSE <<>>)
              \o (IF c.SELF_GRAVITY
                  THEN <<Op("Wl", face, {Off("Wl", 0, 0, 0), Pen("Phi", 3, T, 0),
                                         Pen("Phi", 3, T, -1)}, ""),
                         Op("Wr", face, {Off("Wr", 0, 0, 0), Pen("Phi", 3, T, 0),
                                         Pen("Phi", 3, T, -1)}, "")>>
                  ELSE <<>>)
              \o (IF c.CoolingFunc
                  THEN <<Op("Wl", face, {Off("Wl", 0, 0, 0)}, "CoolingFunc"),
                         Op("Wr", face, {Off("Wr", 0, 0, 0)}, "CoolingFunc")>>
                  ELSE <<>>)
              \o (IF c.SHEARING_BOX
                  THEN <<Op("Wl", face, {Off("Wl", 0, 0, 0), Off("W", 0, 0, -1)}, ""),
                         Op("Wr", face, {Off("Wr", 0, 0, 0), Off("W", 0, 0, 0)}, "")>>
                  ELSE <<>>)
      bi   == IF c.MHD THEN {Vec("Bxi", 3, 0)} ELSE {}
      bf   == IF c.MHD THEN {Off("B1_x1Face", 0, 0, 0)} ELSE {}
      s1d  == <<Op("Ul_x1Face", F, {Vec("Wl", 3, 0)} \cup bi, "Prim1D_to_Cons1D"),
                Op("Ur_x1Face", F, {Vec("Wr", 3, 0)} \cup bi, "Prim1D_to_Cons1D"),
                Op("x1Flux", F, {Off("Ul_x1Face", 0, 0, 0),
                                 Off("Ur_x1Face", 0, 0, 0),
                                 Vec("Wl", 3, 0), Vec("Wr", 3, 0)} \cup bf,
                   "GET_FLUXES")>>
  IN s1a \o s1b \o s1c \o s1d

\* ------------------------------------------------- STEP 2: x2 sweep, 1D fluxes
Step2Ops(c) ==
  LET T    == Cells3(KR(-2, 2), {0}, IR(-2, 2))
      Ti   == Cells3(KR(-2, 2), {0}, IR(-1, 3))
      Tk   == Cells3(KR(-1, 3), {0}, IR(-2, 2))
      all  == V1(JR(-nghost, nghost))
      face == V1(FaceRange(js, je))
      F    == Cells3(KR(-2, 2), FaceRange(js, je), IR(-2, 2))
      s1a  == <<Op("U1d", all, {Pen("U", 2, T, 0)}, "")>>
              \o (IF c.MHD
                  THEN <<Op("Bxc", all, {Pen("U", 2, T, 0)}, ""),
                         Op("Bxi", all, {Pen("B2i", 2, T, 0)}, ""),
                         Op("B2_x2Face", Cells3(KR(-2, 2), JR(-nghost, nghost), IR(-2, 2)),
                            {Off("B2i", 0, 0, 0)}, "")>>
                  ELSE <<>>)
      mb   == IF c.MHD THEN {Off("Bxc", 0, 0, 0)} ELSE {}
      lrb  == IF c.MHD THEN {Abs("Bxc", V1((js - 3)..(je + 3)))} ELSE {}
      lrW  == {Abs("W", V1((js - 3)..(je + 3)))} \cup lrb
      s1b  == <<Op("W", all, {Off("U1d", 0, 0, 0)} \cup mb, "Cons1D_to_Prim1D"),
                Op("Wl", face, lrW, "lr_states"),
                Op("Wr", face, lrW, "lr_states")>>
              \o (IF c.MHD
                  THEN <<Op("Wl", face,
                            {Off("Wl", 0, 0, 0),
                             Pen("B1i", 2, Ti, -1),
                             Pen("B1i", 2, T, -1),
                             Pen("B2i", 2, T, 0),
                             Pen("B2i", 2, T, -1),
                             Pen("B3i", 2, Tk, -1),
                             Pen("B3i", 2, T, -1),
                             Pen("U", 2, T, -1)}, ""),
                         Op("Wr", face,
                            {Off("Wr", 0, 0, 0),
                             Pen("B1i", 2, Ti, 0),
                             Pen("B1i", 2, T, 0),
                             Pen("B2i", 2, T, 1),
                             Pen("B2i", 2, T, 0),
                             Pen("B3i", 2, Tk, 0),
                             Pen("B3i", 2, T, 0),
                             Pen("U", 2, T, 0)}, "")>>
                  ELSE <<>>)
      s1c  == (IF c.StaticGravPot
               THEN <<Op("Wl", face, {Off("Wl", 0, 0, 0)}, "StaticGravPot"),
                      Op("Wr", face, {Off("Wr", 0, 0, 0)}, "StaticGravPot")>>
               ELSE <<>>)
              \o (IF c.SELF_GRAVITY
                  THEN <<Op("Wl", face, {Off("Wl", 0, 0, 0), Pen("Phi", 2, T, 0),
                                         Pen("Phi", 2, T, -1)}, ""),
                         Op("Wr", face, {Off("Wr", 0, 0, 0), Pen("Phi", 2, T, 0),
                                         Pen("Phi", 2, T, -1)}, "")>>
                  ELSE <<>>)
              \o (IF c.CoolingFunc
                  THEN <<Op("Wl", face, {Off("Wl", 0, 0, 0)}, "CoolingFunc"),
                         Op("Wr", face, {Off("Wr", 0, 0, 0)}, "CoolingFunc")>>
                  ELSE <<>>)
      bi   == IF c.MHD THEN {Vec("Bxi", 2, 0)} ELSE {}
      bf   == IF c.MHD THEN {Off("B2_x2Face", 0, 0, 0)} ELSE {}
      s1d  == <<Op("Ul_x2Face", F, {Vec("Wl", 2, 0)} \cup bi, "Prim1D_to_Cons1D"),
                Op("Ur_x2Face", F, {Vec("Wr", 2, 0)} \cup bi, "Prim1D_to_Cons1D"),
                Op("x2Flux", F, {Off("Ul_x2Face", 0, 0, 0),
                                 Off("Ur_x2Face", 0, 0, 0),
                                 Vec("Wl", 2, 0), Vec("Wr", 2, 0)} \cup bf,
                   "GET_FLUXES")>>
  IN s1a \o s1b \o s1c \o s1d

\* ------------------------------------------------- STEP 3: x3 sweep, 1D fluxes
Step3Ops(c) ==
  LET T    == Cells3({0}, JR(-2, 2), IR(-2, 2))
      Ti   == Cells3({0}, JR(-2, 2), IR(-1, 3))
      Tj   == Cells3({0}, JR(-1, 3), IR(-2, 2))
      all  == V1(KR(-nghost, nghost))
      face == V1(FaceRange(ks, ke))
      F    == Cells3(FaceRange(ks, ke), JR(-2, 2), IR(-2, 2))
      s1a  == <<Op("U1d", all, {Pen("U", 1, T, 0)}, "")>>
              \o (IF c.MHD
                  THEN <<Op("Bxc", all, {Pen("U", 1, T, 0)}, ""),
                         Op("Bxi", all, {Pen("B3i", 1, T, 0)}, ""),
                         Op("B3_x3Face", Cells3(KR(-nghost, nghost), JR(-2, 2), IR(-2, 2)),
                            {Off("B3i", 0, 0, 0)}, "")>>
                  ELSE <<>>)
      mb   == IF c.MHD THEN {Off("Bxc", 0, 0, 0)} ELSE {}
      lrb  == IF c.MHD THEN {Abs("Bxc", V1((ks - 3)..(ke + 3)))} ELSE {}
      lrW  == {Abs("W", V1((ks - 3)..(ke + 3)))} \cup lrb
      s1b  == <<Op("W", all, {Off("U1d", 0, 0, 0)} \cup mb, "Cons1D_to_Prim1D"),
                Op("Wl", face, lrW, "lr_states"),
                Op("Wr", face, lrW, "lr_states")>>
              \o (IF c.MHD
                  THEN <<Op("Wl", face,
                            {Off("Wl", 0, 0, 0),
                             Pen("B1i", 1, Ti, -1),
                             Pen("B1i", 1, T, -1),
                             Pen("B2i", 1, Tj, -1),
                             Pen("B2i", 1, T, -1),
                             Pen("B3i", 1, T, 0),
                             Pen("B3i", 1, T, -1),
                             Pen("U", 1, T, -1)}, ""),
                         Op("Wr", face,
                            {Off("Wr", 0, 0, 0),
                             Pen("B1i", 1, Ti, 0),
                             Pen("B1i", 1, T, 0),
                             Pen("B2i", 1, Tj, 0),
                             Pen("B2i", 1, T, 0),
                             Pen("B3i", 1, T, 1),
                             Pen("B3i", 1, T, 0),
                             Pen("U", 1, T, 0)}, "")>>
                  ELSE <<>>)
      s1c  == (IF c.StaticGravPot
               THEN <<Op("Wl", face, {Off("Wl", 0, 0, 0)}, "StaticGravPot"),
                      Op("Wr", face, {Off("Wr", 0, 0, 0)}, "StaticGravPot")>>
               ELSE <<>>)
              \o (IF c.SELF_GRAVITY
                  THEN <<Op("Wl", face, {Off("Wl", 0, 0, 0), Pen("Phi", 1, T, 0),
                                         Pen("Phi", 1, T, -1)}, ""),
                         Op("Wr", face, {Off("Wr", 0, 0, 0), Pen("Phi", 1, T, 0),
                                         Pen("Phi", 1, T, -1)}, "")>>
                  ELSE <<>>)
              \o (IF c.CoolingFunc
                  THEN <<Op("Wl", face, {Off("Wl", 0, 0, 0)}, "CoolingFunc"),
                         Op("Wr", face, {Off("Wr", 0, 0, 0)}, "CoolingFunc")>>
                  ELSE <<>>)
      bi   == IF c.MHD THEN {Vec("Bxi", 1, 0)} ELSE {}
      bf   == IF c.MHD THEN {Off("B3_x3Face", 0, 0, 0)} ELSE {}
      s1d  == <<Op("Ul_x3Face", F, {Vec("Wl", 1, 0)} \cup bi, "Prim1D_to_Cons1D"),
                Op("Ur_x3Face", F, {Vec("Wr", 1, 0)} \cup bi, "Prim1D_to_Cons1D"),
                Op("x3Flux", F, {Off("Ul_x3Face", 0, 0, 0),
                                 Off("Ur_x3Face", 0, 0, 0),
                                 Vec("Wl", 1, 0), Vec("Wr", 1, 0)} \cup bf,
                   "GET_FLUXES")>>
  IN s1a \o s1b \o s1c \o s1d

\* ------------------------- STEP 5: correct x1-interface states (transverse)
Step5Ops(c) ==
  LET F   == Cells3(KR(-1, 1), JR(-1, 1), IR(-1, 2))
      emL == IF c.MHD THEN {Off("emf1", 0, 0, -1),
                 Off("emf1", 0, 1, -1),
                 Off("emf1", 1, 0, -1),
                 Off("emf1", 1, 1, -1)} ELSE {}
      emR == IF c.MHD THEN {Off("emf1", 0, 0, 0),
                 Off("emf1", 0, 1, 0),
                 Off("emf1", 1, 0, 0),
                 Off("emf1", 1, 1, 0)} ELSE {}
      sab == <<Op("Ul_x1Face", F,
                {Off("Ul_x1Face", 0, 0, 0),
                 Off("x2Flux", 0, 1, -1),
                 Off("x2Flux", 0, 0, -1),
                 Off("x3Flux", 1, 0, -1),
                 Off("x3Flux", 0, 0, -1)} \cup emL, ""),
               Op("Ur_x1Face", F,
                {Off("Ur_x1Face", 0, 0, 0),
                 Off("x2Flux", 0, 1, 0),
                 Off("x2Flux", 0, 0, 0),
                 Off("x3Flux", 1, 0, 0),
                 Off("x3Flux", 0, 0, 0)} \cup emR, "")>>
      sc  == IF c.MHD
             THEN <<Op("Ul_x1Face", F,
                {Off("Ul_x1Face", 0, 0, 0),
                 Off("B1i", 0, 0, 0),
                 Off("B1i", 0, 0, -1),
                 Off("B2i", 0, 1, -1),
                 Off("B2i", 0, 0, -1),
                 Off("B3i", 1, 0, -1),
                 Off("B3i", 0, 0, -1),
                 Off("U", 0, 0, -1)}, ""),
             Op("Ur_x1Face", F,
                {Off("Ur_x1Face", 0, 0, 0),
                 Off("B1i", 0, 0, 1),
                 Off("B1i", 0, 0, 0),
                 Off("B2i", 0, 1, 0),
                 Off("B2i", 0, 0, 0),
                 Off("B3i", 1, 0, 0),
                 Off("B3i", 0, 0, 0),
                 Off("U", 0, 0, 0)}, "")>>
             ELSE <<>>
      sd  == (IF c.StaticGravPot
              THEN <<Op("Ul_x1Face", F,
                {Off("Ul_x1Face", 0, 0, 0),
                 Off("U", 0, 0, -1),
                 Off("x2Flux", 0, 0, -1),
                 Off("x2Flux", 0, 1, -1),
                 Off("x3Flux", 0, 0, -1),
                 Off("x3Flux", 1, 0, -1)}, "StaticGravPot"),
             Op("Ur_x1Face", F,
                {Off("Ur_x1Face", 0, 0, 0),
                 Off("U", 0, 0, 0),
                 Off("x2Flux", 0, 0, 0),
                 Off("x2Flux", 0, 1, 0),
                 Off("x3Flux", 0, 0, 0),
                 Off("x3Flux", 1, 0, 0)}, "StaticGravPot")>>
              ELSE <<>>)
             \o (IF c.SELF_GRAVITY
              THEN <<Op("Ul_x1Face", F,
                {Off("Ul_x1Face", 0, 0, 0),
                 Off("U", 0, 0, -1),
                 Off("x2Flux", 0, 0, -1),
                 Off("x2Flux", 0, 1, -1),
                 Off("x3Flux", 0, 0, -1),
                 Off("x3Flux", 1, 0, -1),
                 Off("Phi", 0, 0, -1),
                 Off("Phi", 0, 1, -1),
                 Off("Phi", 0, -1, -1),
                 Off("Phi", 1, 0, -1),
                 Off("Phi", -1, 0, -1)}, ""),
             Op("Ur_x1Face", F,
                {Off("Ur_x1Face", 0, 0, 0),
                 Off("U", 0, 0, 0),
                 Off("x2Flux", 0, 0, 0),
                 Off("x2Flux", 0, 1, 0),
                 Off("x3Flux", 0, 0, 0),
                 Off("x3Flux", 1, 0, 0),
                 Off("Phi", 0, 0, 0),
                 Off("Phi", 0, 1, 0),
                 Off("Phi", 0, -1, 0),
                 Off("Phi", 1, 0, 0),
                 Off("Phi", -1, 0, 0)}, "")>>
              ELSE <<>>)
  IN sab \o sc \o sd

\* ------------------------- STEP 6: correct x2-interface states (transverse)
Step6Ops(c) ==
  LET F   == Cells3(KR(-1, 1), JR(-1, 2), IR(-1, 1))
      emL == IF c.MHD THEN {Off("emf2", 0, -1, 0),
                 Off("emf2", 0, -1, 1),
                 Off("emf2", 1, -1, 0),
                 Off("emf2", 1, -1, 1)} ELSE {}
      emR == IF c.MHD THEN {Off("emf2", 0, 0, 0),
                 Off("emf2", 0, 0, 1),
                 Off("emf2", 1, 0, 0),
                 Off("emf2", 1, 0, 1)} ELSE {}
      sab == <<Op("Ul_x2Face", F,
                {Off("Ul_x2Face", 0, 0, 0),
                 Off("x1Flux", 0, -1, 1),
                 Off("x1Flux", 0, -1, 0),
                 Off("x3Flux", 1, -1, 0),
                 Off("x3Flux", 0, -1, 0)} \cup emL, ""),
               Op("Ur_x2Face", F,
                {Off("Ur_x2Face", 0, 0, 0),
                 Off("x1Flux", 0, 0, 1),
                 Off("x1Flux", 0, 0, 0),
                 Off("x3Flux", 1, 0, 0),
                 Off("x3Flux", 0, 0, 0)} \cup emR, "")>>
      sc  == IF c.MHD
             THEN <<Op("Ul_x2Face", F,
                {Off("Ul_x2Face", 0, 0, 0),
                 Off("B1i", 0, -1, 1),
                 Off("B1i", 0, -1, 0),
                 Off("B2i", 0, 0, 0),
                 Off("B2i", 0, -1, 0),
                 Off("B3i", 1, -1, 0),
                 Off("B3i", 0, -1, 0),
                 Off("U", 0, -1, 0)}, ""),
             Op("Ur_x2Face", F,
                {Off("Ur_x2Face", 0, 0, 0),
                 Off("B1i", 0, 0, 1),
                 Off("B1i", 0, 0, 0),
                 Off("B2i", 0, 1, 0),
                 Off("B2i", 0, 0, 0),
                 Off("B3i", 1, 0, 0),
                 Off("B3i", 0, 0, 0),
                 Off("U", 0, 0, 0)}, "")>>
             ELSE <<>>
      sd  == (IF c.StaticGravPot
              THEN <<Op("Ul_x2Face", F,
                {Off("Ul_x2Face", 0, 0, 0),
                 Off("U", 0, -1, 0),
                 Off("x1Flux", 0, -1, 0),
                 Off("x1Flux", 0, -1, 1),
                 Off("x3Flux", 0, -1, 0),
                 Off("x3Flux", 1, -1, 0)}, "StaticGravPot"),
             Op("Ur_x2Face", F,
                {Off("Ur_x2Face", 0, 0, 0),
                 Off("U", 0, 0, 0),
                 Off("x1Flux", 0, 0, 0),
                 Off("x1Flux", 0, 0, 1),
                 Off("x3Flux", 0, 0, 0),
                 Off("x3Flux", 1, 0, 0)}, "StaticGravPot")>>
              ELSE <<>>)
             \o (IF c.SELF_GRAVITY
              THEN <<Op("Ul_x2Face", F,
                {Off("Ul_x2Face", 0, 0, 0),
                 Off("U", 0, -1, 0),
                 Off("x1Flux", 0, -1, 0),
                 Off("x1Flux", 0, -1, 1),
                 Off("x3Flux", 0, -1, 0),
                 Off("x3Flux", 1, -1, 0),
                 Off("Phi", 0, -1, 0),
                 Off("Phi", 0, -1, 1),
                 Off("Phi", 0, -1, -1),
                 Off("Phi", 1, -1, 0),
                 Off("Phi", -1, -1, 0)}, ""),
             Op("Ur_x2Face", F,
                {Off("Ur_x2Face", 0, 0, 0),
                 Off("U", 0, 0, 0),
                 Off("x1Flux", 0, 0, 0),
                 Off("x1Flux", 0, 0, 1),
                 Off("x3Flux", 0, 0, 0),
                 Off("x3Flux", 1, 0, 0),
                 Off("Phi", 0, 0, 0),
                 Off("Phi", 0, 0, 1),
                 Off("Phi", 0, 0, -1),
                 Off("Phi", 1, 0, 0),
                 Off("Phi", -1, 0, 0)}, "")>>
              ELSE <<>>)
             \o (IF c.SHEARING_BOX
              THEN <<Op("Ul_x2Face", F,
                {Off("Ul_x2Face", 0, 0, 0),
                 Off("U", 0, -1, 0)}, ""),
             Op("Ur_x2Face", F,
                {Off("Ur_x2Face", 0, 0, 0),
                 Off("U", 0, 0, 0)}, "")>>
              ELSE <<>>)
  IN sab \o sc \o sd

\* ------------------------- STEP 7: correct x3-interface states (transverse)
Step7Ops(c) ==
  LET F   == Cells3(KR(-1, 2), JR(-1, 1), IR(-1, 1))
      emL == IF c.MHD THEN {Off("emf3", -1, 0, 0),
                 Off("emf3", -1, 0, 1),
                 Off("emf3", -1, 1, 0),
                 Off("emf3", -1, 1, 1)} ELSE {}
      emR == IF c.MHD THEN {Off("emf3", 0, 0, 0),
                 Off("emf3", 0, 0, 1),
                 Off("emf3", 0, 1, 0),
                 Off("emf3", 0, 1, 1)} ELSE {}
      sab == <<Op("Ul_x3Face", F,
                {Off("Ul_x3Face", 0, 0, 0),
                 Off("x1Flux", -1, 0, 1),
                 Off("x1Flux", -1, 0, 0),
                 Off("x2Flux", -1, 1, 0),
                 Off("x2Flux", -1, 0, 0)} \cup emL, ""),
               Op("Ur_x3Face", F,
                {Off("Ur_x3Face", 0, 0, 0),
                 Off("x1Flux", 0, 0, 1),
                 Off("x1Flux", 0, 0, 0),
                 Off("x2Flux", 0, 1, 0),
                 Off("x2Flux", 0, 0, 0)} \cup emR, "")>>
      sc  == IF c.MHD
             THEN <<Op("Ul_x3Face", F,
                {Off("Ul_x3Face", 0, 0, 0),
                 Off("B1i", -1, 0, 1),
                 Off("B1i", -1, 0, 0),
                 Off("B2i", -1, 1, 0),
                 Off("B2i", -1, 0, 0),
                 Off("B3i", 0, 0, 0),
                 Off("B3i", -1, 0, 0),
                 Off("U", -1, 0, 0)}, ""),
             Op("Ur_x3Face", F,
                {Off("Ur_x3Face", 0, 0, 0),
                 Off("B1i", 0, 0, 1),
                 Off("B1i", 0, 0, 0),
                 Off("B2i", 0, 1, 0),
                 Off("B2i", 0, 0, 0),
                 Off("B3i", 1, 0, 0),
                 Off("B3i", 0, 0, 0),
                 Off("U", 0, 0, 0)}, "")>>
             ELSE <<>>
      sd  == (IF c.StaticGravPot
              THEN <<Op("Ul_x3Face", F,
                {Off("Ul_x3Face", 0, 0, 0),
                 Off("U", -1, 0, 0),
                 Off("x1Flux", -1, 0, 0),
                 Off("x1Flux", -1, 0, 1),
                 Off("x2Flux", -1, 0, 0),
                 Off("x2Flux", -1, 1, 0)}, "StaticGravPot"),
             Op("Ur_x3Face", F,
                {Off("Ur_x3Face", 0, 0, 0),
                 Off("U", 0, 0, 0),
                 Off("x1Flux", 0, 0, 0),
                 Off("x1Flux", 0, 0, 1),
                 Off("x2Flux", 0, 0, 0),
                 Off("x2Flux", 0, 1, 0)}, "StaticGravPot")>>
              ELSE <<>>)
             \o (IF c.SELF_GRAVITY
              THEN <<Op("Ul_x3Face", F,
                {Off("Ul_x3Face", 0, 0, 0),
                 Off("U", -1, 0, 0),
                 Off("x1Flux", -1, 0, 0),
                 Off("x1Flux", -1, 0, 1),
                 Off("x2Flux", -1, 0, 0),
                 Off("x2Flux", -1, 1, 0),
                 Off("Phi", -1, 0, 0),
                 Off("Phi", -1, 0, 1),
                 Off("Phi", -1, 0, -1),
                 Off("Phi", -1, 1, 0),
                 Off("Phi", -1, -1, 0)}, ""),
             Op("Ur_x3Face", F,
                {Off("Ur_x3Face", 0, 0, 0),
                 Off("U", 0, 0, 0),
                 Off("x1Flux", 0, 0, 0),
                 Off("x1Flux", 0, 0, 1),
                 Off("x2Flux", 0, 0, 0),
                 Off("x2Flux", 0, 1, 0),
                 Off("Phi", 0, 0, 0),
                 Off("Phi", 0, 0, 1),
                 Off("Phi", 0, 0, -1),
                 Off("Phi", 0, 1, 0),
                 Off("Phi", 0, -1, 0)}, "")>>
              ELSE <<>>)
             \o (IF c.SHEARING_BOX
              THEN <<Op("Ul_x3Face", F,
                {Off("Ul_x3Face", 0, 0, 0),
                 Off("U", -1, 0, 0)}, ""),
             Op("Ur_x3Face", F,
                {Off("Ur_x3Face", 0, 0, 0),
                 Off("U", 0, 0, 0)}, "")>>
              ELSE <<>>)
  IN sab \o sc \o sd

\* -------------------------------------------- corner EMFs (private functions)
\* (mutant) the x1-corner routine with its x2Flux stencil one cell lower
integrate_emf1_cornerLow ==
  Op("emf1", Cells3(KR(-1, 2), JR(-1, 2), IR(-2, 2)),
     {Off("x2Flux", -2, 0, 0), Off("x2Flux", -1, 0, 0),
      Off("x3Flux", 0, -1, 0), Off("x3Flux", 0, 0, 0),
      Off("emf1_cc", -1, -1, 0), Off("emf1_cc", -1, 0, 0),
      Off("emf1_cc", 0, -1, 0), Off("emf1_cc", 0, 0, 0)}, "")

integrate_emf1_corner ==
  Op("emf1", Cells3(KR(-1, 2), JR(-1, 2), IR(-2, 2)),
     {Off("x2Flux", -1, 0, 0), Off("x2Flux", 0, 0, 0),
      Off("x3Flux", 0, -1, 0), Off("x3Flux", 0, 0, 0),
      Off("emf1_cc", -1, -1, 0), Off("emf1_cc", -1, 0, 0),
      Off("emf1_cc", 0, -1, 0), Off("emf1_cc", 0, 0, 0)}, "")

integrate_emf2_corner ==
  Op("emf2", Cells3(KR(-1, 2), JR(-2, 2), IR(-1, 2)),
     {Off("x1Flux", -1, 0, 0), Off("x1Flux", 0, 0, 0),
      Off("x3Flux", 0, 0, -1), Off("x3Flux", 0, 0, 0),
      Off("emf2_cc", -1, 0, -1), Off("emf2_cc", -1, 0, 0),
      Off("emf2_cc", 0, 0, -1), Off("emf2_cc", 0, 0, 0)}, "")

integrate_emf3_corner ==
  Op("emf3", Cells3(KR(-2, 2), JR(-1, 2), IR(-1, 2)),
     {Off("x1Flux", 0, -1, 0), Off("x1Flux", 0, 0, 0),
      Off("x2Flux", 0, 0, -1), Off("x2Flux", 0, 0, 0),
      Off("emf3_cc", 0, -1, -1), Off("emf3_cc", 0, -1, 0),
      Off("emf3_cc", 0, 0, -1), Off("emf3_cc", 0, 0, 0)}, "")

\* (mutant) Step 4 also refreshes the second-sweep x1-fluxes
Step4OpsAndFlux(c) ==
  <<Op("x1Flux", Cells3(KR(-1, 1), JR(-1, 1), IR(0, 1)),
       {Off("Ul_x1Face", 0, 0, 0), Off("Ur_x1Face", 0, 0, 0)}, "")>>

\* ------------------------------- STEP 4: face-centred B for 0.5*dt (MHD only)
Step4Ops(c) ==
  IF ~c.MHD THEN <<>>
  ELSE
    LET C2 == Cells3(KR(-2, 2), JR(-2, 2), IR(-2, 2))
    IN <<Op("emf1_cc", C2, {Off("U", 0, 0, 0)}, ""),
         Op("emf2_cc", C2, {Off("U", 0, 0, 0)}, ""),
         Op("emf3_cc", C2, {Off("U", 0, 0, 0)}, ""),
         integrate_emf1_corner, integrate_emf2_corner, integrate_emf3_corner,
         Op("B1_x1Face", Cells3(KR(-1, 1), JR(-1, 1), IR(-1, 2)),
            {Off("B1_x1Face", 0, 0, 0), Off("emf2", 1, 0, 0), Off("emf2", 0, 0, 0),
             Off("emf3", 0, 1, 0), Off("emf3", 0, 0, 0)}, ""),
         Op("B2_x2Face", Cells3(KR(-1, 1), JR(-1, 2), IR(-1, 1)),
            {Off("B2_x2Face", 0, 0, 0), Off("emf3", 0, 0, 1), Off("emf3", 0, 0, 0),
             Off("emf1", 1, 0, 0), Off("emf1", 0, 0, 0)}, ""),
         Op("B3_x3Face", Cells3(KR(-1, 2), JR(-1, 1), IR(-1, 1)),
            {Off("B3_x3Face", 0, 0, 0), Off("emf1", 0, 1, 0), Off("emf1", 0, 0, 0),
             Off("emf2", 0, 0, 1), Off("emf2", 0, 0, 0)}, "")>>

\* --------------------- STEP 8: cell-centred values at the half time step
Step8Ops(c) ==
  LET C1   == Cells3(KR(-1, 1), JR(-1, 1), IR(-1, 1))
      flx  == {Off("U", 0, 0, 0),
               Off("x1Flux", 0, 0, 1), Off("x1Flux", 0, 0, 0),
               Off("x2Flux", 0, 1, 0), Off("x2Flux", 0, 0, 0),
               Off("x3Flux", 1, 0, 0), Off("x3Flux", 0, 0, 0)}
      phi  == IF c.SELF_GRAVITY
              THEN {Off("Phi", 0, 0, 0), Off("Phi", 0, 0, 1), Off("Phi", 0, 0, -1),
                    Off("Phi", 0, 1, 0), Off("Phi", 0, -1, 0),
                    Off("Phi", 1, 0, 0), Off("Phi", -1, 0, 0)}
              ELSE {}
      bch  == {Off("B1_x1Face", 0, 0, 0), Off("B1_x1Face", 0, 0, 1),
               Off("B2_x2Face", 0, 0, 0), Off("B2_x2Face", 0, 1, 0),
               Off("B3_x3Face", 0, 0, 0), Off("B3_x3Face", 1, 0, 0)}
      half == flx \cup phi \cup {Off("dhalf", 0, 0, 0)}
      s8a  == IF c.MHD \/ c.StaticGravPot \/ c.CoolingFunc
              THEN <<Op("dhalf", C1, flx, "")>>
              ELSE <<>>
      s8b  == IF c.MHD \/ c.CoolingFunc
              THEN <<Op("phalf", C1,
                        half \cup (IF c.MHD THEN bch ELSE {}),
                        IF c.StaticGravPot THEN "StaticGravPot" ELSE "")>>
                   \o (IF c.MHD
                       THEN <<Op("emf1_cc", C1, half \cup bch, ""),
                              Op("emf2_cc", C1, half \cup bch, ""),
                              Op("emf3_cc", C1, half \cup bch, "")>>
                       ELSE <<>>)
              ELSE <<>>
  IN s8a \o s8b

\* ------------------------ STEP 9: 3D fluxes from the corrected L/R states
Step9Ops(c) ==
  LET F1   == Cells3(KR(-1, 1), JR(-1, 1), IR(0, 1))
      F2   == Cells3(KR(-1, 1), JR(0, 1), IR(-1, 1))
      F3   == Cells3(KR(0, 1), JR(-1, 1), IR(-1, 1))
      b(a) == IF c.MHD THEN {Off(a, 0, 0, 0)} ELSE {}
      s9a  == IF c.H_CORRECTION
              THEN <<Op("eta1", Cells3(KR(-1, 1), JR(-1, 1), IR(-1, 2)),
                        {Off("Ur_x1Face", 0, 0, 0), Off("Ul_x1Face", 0, 0, 0)}
                        \cup b("B1_x1Face"), "cfast"),
                     Op("eta2", Cells3(KR(-1, 1), JR(-1, 2), IR(-1, 1)),
                        {Off("Ur_x2Face", 0, 0, 0), Off("Ul_x2Face", 0, 0, 0)}
                        \cup b("B2_x2Face"), "cfast"),
                     Op("eta3", Cells3(KR(-1, 2), JR(-1, 1), IR(-1, 1)),
                        {Off("Ur_x3Face", 0, 0, 0), Off("Ul_x3Face", 0, 0, 0)}
                        \cup b("B3_x3Face"), "cfast")>>
              ELSE <<>>
      h1   == IF c.H_CORRECTION
              THEN {Off("eta2", 0, 0, -1), Off("eta2", 0, 0, 0),
                    Off("eta2", 0, 1, -1), Off("eta2", 0, 1, 0),
                    Off("eta3", 0, 0, -1), Off("eta3", 0, 0, 0),
                    Off("eta3", 1, 0, -1), Off("eta3", 1, 0, 0),
                    Off("eta1", 0, 0, 0)}
              ELSE {}
      h2   == IF c.H_CORRECTION
              THEN {Off("eta1", 0, -1, 0), Off("eta1", 0, 0, 0),
                    Off("eta1", 0, -1, 1), Off("eta1", 0, 0, 1),
                    Off("eta3", 0, -1, 0), Off("eta3", 0, 0, 0),
                    Off("eta3", 1, -1, 0), Off("eta3", 1, 0, 0),
                    Off("eta2", 0, 0, 0)}
              ELSE {}
      h3   == IF c.H_CORRECTION
              THEN {Off("eta1", -1, 0, 0), Off("eta1", 0, 0, 0),
                    Off("eta1", -1, 0, 1), Off("eta1", 0, 0, 1),
                    Off("eta2", -1, 0, 0), Off("eta2", 0, 0, 0),
                    Off("eta2", -1, 1, 0), Off("eta2", 0, 1, 0),
                    Off("eta3", 0, 0, 0)}
              ELSE {}
      flux(n, F, bn, h) ==
        LET ul == "Ul_x" \o n \o "Face"
            ur == "Ur_x" \o n \o "Face"
            T  == {<<x[1], x[2], 0>> : x \in F}
            v  == V1({x[3] : x \in F})
        IN <<Op("Wl", v, {Pen(ul, 3, T, 0)} \cup
                         (IF c.MHD THEN {Pen(bn, 3, T, 0)} ELSE {}),
                "Cons1D_to_Prim1D"),
             Op("Wr", v, {Pen(ur, 3, T, 0)} \cup
                         (IF c.MHD THEN {Pen(bn, 3, T, 0)} ELSE {}),
                "Cons1D_to_Prim1D"),
             Op("x" \o n \o "Flux", F,
                {Off(ul, 0, 0, 0), Off(ur, 0, 0, 0),
                 Vec("Wl", 3, 0), Vec("Wr", 3, 0)} \cup b(bn) \cup h,
                "GET_FLUXES")>>
  IN s9a \o flux("1", F1, "B1_x1Face", h1)
         \o flux("2", F2, "B2_x2Face", h2)
         \o flux("3", F3, "B3_x3Face", h3)

\* ---------------- STEP 10: face-centred B for a full time step (MHD only)
Step10Ops(c) ==
  IF ~c.MHD THEN <<>>
  ELSE
    LET edge(i) == Cells3(KR(0, 1), JR(0, 0), {i})
        pl      == V2(KR(0, 1), JR(0, 0))
        remap   ==
          IF ~c.SHEARING_BOX THEN <<>>
          ELSE (IF c.ix1
                THEN <<Op("remapEyiib", pl, {Abs("emf2", edge(is) \cup edge(ie + 1))},
                          "RemapEy_ix1")>>
                ELSE <<>>)
               \o (IF c.ox1
                   THEN <<Op("remapEyoib", pl,
                             {Abs("emf2", edge(is) \cup edge(ie + 1))},
                             "RemapEy_ox1")>>
                   ELSE <<>>)
               \o (IF c.ix1
                   THEN <<Op("emf2", edge(is),
                             {Off("emf2", 0, 0, 0), Pln("remapEyiib")}, "")>>
                   ELSE <<>>)
               \o (IF c.ox1
                   THEN <<Op("emf2", edge(ie + 1),
                             {Off("emf2", 0, 0, 0), Pln("remapEyoib")}, "")>>
                   ELSE <<>>)
    IN <<integrate_emf1_corner, integrate_emf2_corner, integrate_emf3_corner>>
       \o remap \o
       <<Op("B1i", Cells3(KR(0, 0), JR(0, 0), IR(0, 1)),
            {Off("B1i", 0, 0, 0), Off("emf2", 1, 0, 0), Off("emf2", 0, 0, 0),
             Off("emf3", 0, 1, 0), Off("emf3", 0, 0, 0)}, ""),
         Op("B2i", Cells3(KR(0, 0), JR(0, 1), IR(0, 0)),
            {Off("B2i", 0, 0, 0), Off("emf3", 0, 0, 1), Off("emf3", 0, 0, 0),
             Off("emf1", 1, 0, 0), Off("emf1", 0, 0, 0)}, ""),
         Op("B3i", Cells3(KR(0, 1), JR(0, 0), IR(0, 0)),
            {Off("B3i", 0, 0, 0), Off("emf1", 0, 1, 0), Off("emf1", 0, 0, 0),
             Off("emf2", 0, 0, 1), Off("emf2", 0, 0, 0)}, "")>>

\* ------------------------------ STEP 11: source terms for a full time step
Step11Ops(c) ==
  LET Live == Cells3(KR(0, 0), JR(0, 0), IR(0, 0))
      six  == {Off("U", 0, 0, 0),
               Off("x1Flux", 0, 0, 0), Off("x1Flux", 0, 0, 1),
               Off("x2Flux", 0, 0, 0), Off("x2Flux", 0, 1, 0),
               Off("x3Flux", 0, 0, 0), Off("x3Flux", 1, 0, 0)}
      ring == {Off("Phi", d[1], d[2], d[3]) :
                 d \in {t \in (-1..1) \X (-1..1) \X (-1..1) :
                          t[1] = 0 \/ t[2] = 0 \/ t[3] = 0}}
      s11a == IF c.SHEARING_BOX
              THEN <<Op("U", Live, six \cup {Off("dhalf", 0, 0, 0)},
                        "StaticGravPot")>>
              ELSE IF c.StaticGravPot
                   THEN <<Op("U", Live, six \cup {Off("dhalf", 0, 0, 0)},
                             "StaticGravPot")>>
                   ELSE <<>>
      s11b == IF c.SELF_GRAVITY
              THEN <<Op("U", Live, six \cup ring, ""),
                     Op("x1MassFlux", Cells3(KR(0, 1), JR(0, 1), IR(0, 1)),
                        {Off("x1Flux", 0, 0, 0)}, ""),
                     Op("x2MassFlux", Cells3(KR(0, 1), JR(0, 1), IR(0, 1)),
                        {Off("x2Flux", 0, 0, 0)}, ""),
                     Op("x3MassFlux", Cells3(KR(0, 1), JR(0, 1), IR(0, 1)),
                        {Off("x3Flux", 0, 0, 0)}, "")>>
              ELSE <<>>
      s11c == IF c.CoolingFunc
              THEN <<Op("U", Live, {Off("U", 0, 0, 0), Off("dhalf", 0, 0, 0),
                                    Off("phalf", 0, 0, 0)}, "CoolingFunc")>>
              ELSE <<>>
  IN s11a \o s11b \o s11c

\* (mutant) Step 12a updating the cells up to ie+1
Step12OpsGhost(c) ==
  <<Op("U", Cells3(KR(0, 0), JR(0, 0), IR(0, 1)),
       {Off("U", 0, 0, 0), Off("x1Flux", 0, 0, 1), Off("x1Flux", 0, 0, 0)}, "")>>

\* --------------------- STEP 12: cell-centred values for a full time step
Step12Ops(c) ==
  LET Live == Cells3(KR(0, 0), JR(0, 0), IR(0, 0))
  IN <<Op("U", Live, {Off("U", 0, 0, 0), Off("x1Flux", 0, 0, 1),
                      Off("x1Flux", 0, 0, 0)}, ""),
       Op("U", Live, {Off("U", 0, 0, 0), Off("x2Flux", 0, 1, 0),
                      Off("x2Flux", 0, 0, 0)}, ""),
       Op("U", Live, {Off("U", 0, 0, 0), Off("x3Flux", 1, 0, 0),
                      Off("x3Flux", 0, 0, 0)}, "")>>
     \o (IF c.MHD
         THEN <<Op("U", Live, {Off("U", 0, 0, 0),
                               Off("B1i", 0, 0, 0), Off("B1i", 0, 0, 1),
                               Off("B2i", 0, 0, 0), Off("B2i", 0, 1, 0),
                               Off("B3i", 0, 0, 0), Off("B3i", 1, 0, 0)}, "")>>
         ELSE <<>>)

PhaseOps(p, c) ==
  CASE p = 1 -> Step1Ops(c) [] p = 2 -> Step2Ops(c) [] p = 3 -> Step3Ops(c)
    [] p = 4 -> Step4Ops(c) [] p = 5 -> Step5Ops(c) [] p = 6 -> Step6Ops(c)
    [] p = 7 -> Step7Ops(c) [] p = 8 -> Step8Ops(c) [] p = 9 -> Step9Ops(c)
    [] p = 10 -> Step10Ops(c) [] p = 11 -> Step11Ops(c) [] p = 12 -> Step12Ops(c)

\* ------------------------------------------------------------ configurations
\* build flags (MHD, H_CORRECTION, SHEARING_BOX, SELF_GRAVITY), the two
\* nullable callbacks (TRUE = registered), and the position of the grid in the
\* x1 decomposition (ix1: my_iproc == 0, ox1: my_iproc == NGrid_x1-1)
Configs ==
  {c \in [MHD : BOOLEAN, H_CORRECTION : BOOLEAN, SHEARING_BOX : BOOLEAN,
          SELF_GRAVITY : BOOLEAN, StaticGravPot : BOOLEAN,
          CoolingFunc : BOOLEAN, ix1 : BOOLEAN, ox1 : BOOLEAN] :
     (~(c.MHD /\ c.SHEARING_BOX)) => (~c.ix1 /\ ~c.ox1)}

\* ----------------------------------------------------------- scratch buffers
AllocOrder(c) ==
  (IF c.MHD THEN Emf3D ELSE <<>>)
  \o (IF c.H_CORRECTION THEN Eta3D ELSE <<>>)
  \o (IF c.MHD THEN Mhd1D \o BFace3D ELSE <<>>)
  \o Vec1D \o Face3D \o Flux3D
  \o (IF c.MHD \/ c.StaticGravPot \/ c.CoolingFunc THEN Half3D ELSE <<>>)
  \o (IF c.SHEARING_BOX THEN Remap2D ELSE <<>>)

\* (mutant) the destructor releases dhalf and phalf only in an MHD build
FreeOrderNoHalf(c) ==
  (IF c.MHD THEN Emf3D ELSE <<>>)
  \o (IF c.H_CORRECTION THEN Eta3D ELSE <<>>)
  \o (IF c.MHD THEN Mhd1D \o BFace3D ELSE <<>>)
  \o Vec1D \o Face3D \o Flux3D
  \o (IF c.MHD THEN Half3D ELSE <<>>)
  \o (IF c.SHEARING_BOX THEN Remap2D ELSE <<>>)

FreeOrder(c) ==
  (IF c.MHD THEN Emf3D ELSE <<>>)
  \o (IF c.H_CORRECTION THEN Eta3D ELSE <<>>)
  \o (IF c.MHD THEN Mhd1D \o BFace3D ELSE <<>>)
  \o Vec1D \o Face3D \o Flux3D \o Half3D
  \o (IF c.SHEARING_BOX THEN Remap2D ELSE <<>>)

\* (mutant) a failed allocation does not leave the allocation sequence
AllocAttemptsAll(order, failAt) == Len(order)

\* number of allocations attempted when allocation failAt fails (0: none fails):
\* every failure leaves the allocation sequence at once (goto on_error)
AllocAttempts(order, failAt) ==
  IF failAt = 0 THEN Len(order) ELSE failAt

\* pointers after the allocations: block ids in allocation order, NULL (0) for
\* the failed one, untouched for those never attempted
AllocPtrs(p, order, failAt, first) ==
  LET nTry == AllocAttempts(order, failAt)
  IN [a \in ScratchNames |->
        IF \E n \in 1..nTry : order[n] = a
        THEN LET n == CHOOSE m \in 1..nTry : order[m] = a
             IN IF n = failAt THEN 0 ELSE first + n - 1
        ELSE p[a]]

\* integrate_destruct_3d: free every non-NULL pointer; pointers keep their value
FreedBlocks(p, c) == {p[a] : a \in {b \in SeqSet(FreeOrder(c)) : p[b] # 0}}

\* integrate_destruct(), called on the error path of integrate_init_3d: the
\* dispatcher of the integrator module, which runs the destructor of the
\* integrator in use
integrate_destruct(p, c) == FreedBlocks(p, c)

ErrMsgInit == <<"[integrate_init]:", "malloc", "returned", "a", "NULL", "pointer">>

GridN == <<NX3 + 2*nghost, NX2 + 2*nghost, NX1 + 2*nghost>>

\* integrate_init_3d called in whatever state the scratch pointers are in
integrate_init_3d_any(nx1, nx2, nx3, failAt) ==
  LET order == AllocOrder(cfg)
      nTry  == AllocAttempts(order, failAt)
      p1    == AllocPtrs(ptr, order, failAt, nextBlk)
      got   == {p1[order[n]] : n \in 1..nTry} \ {0}
  IN /\ pc = "idle"
     /\ failAt <= Len(order)
     /\ ptr' = p1
     /\ nextBlk' = nextBlk + nTry
     /\ attempts' = nTry
     /\ allocN' = <<nx3 + 2*nghost, nx2 + 2*nghost, nx1 + 2*nghost>>
     /\ IF failAt = 0
        THEN /\ heap' = heap \cup got
             /\ life' = "ready"
             /\ UNCHANGED <<pc, failed, errmsg, dblFree>>
        ELSE \* on_error: release the scratch arrays, then ath_error
             /\ heap' = (heap \cup got) \ integrate_destruct(p1, cfg)
             /\ dblFree' = (dblFree \/ ~(integrate_destruct(p1, cfg) \subseteq heap \cup got))
             /\ failed' = order[failAt]
             /\ errmsg' = ErrMsgInit
             /\ life' = "failed"
             /\ pc' = "fatal"
     /\ UNCHANGED <<cfg, phase, stepNo, trace, stale, etaDep, wrote, etah,
                    etahMiss, calls, argStale, touched>>
     /\ UNCHANGED nvars
     /\ UNCHANGED lvars

\* integrate_init_3d as the driver calls it: once, before the first step
integrate_init_3d(nx1, nx2, nx3, failAt) ==
  /\ life = "new"
  /\ integrate_init_3d_any(nx1, nx2, nx3, failAt)

\* integrate_destruct_3d called in whatever state the scratch pointers are in
integrate_destruct_3d_any ==
  /\ pc \in {"idle", "done"}
  /\ heap' = heap \ FreedBlocks(ptr, cfg)
  /\ dblFree' = (dblFree \/ ~(FreedBlocks(ptr, cfg) \subseteq heap))
  /\ life' = "destroyed"
  /\ pc' = "idle"
  /\ UNCHANGED <<cfg, phase, stepNo, trace, stale, etaDep, wrote, etah,
                 etahMiss, calls, argStale, ptr, nextBlk, allocN, attempts,
                 failed, errmsg, touched>>
  /\ UNCHANGED nvars
  /\ UNCHANGED lvars

\* integrate_destruct_3d as the driver calls it: once, after the last step
integrate_destruct_3d ==
  /\ life = "ready"
  /\ integrate_destruct_3d_any

\* ------------------------------------------------------------ integrate_3d_ctu
EtahInit == [step |-> 0, phase |-> 0, arr |-> "", face |-> <<0, 0, 0>>]

\* value of the module-level etah seen by GET_FLUXES called in phase p of the
\* current step for face x of flux array a: only Steps 9b-9d assign it (under
\* H_CORRECTION) immediately before the call
EtahSeen(p, a, x) ==
  IF cfg.H_CORRECTION /\ p = 9
  THEN [step |-> stepNo + 1, phase |-> p, arr |-> a, face |-> x]
  ELSE etah

\* etah after phase p: left at the value assigned for the last face visited
EtahAfter(p) ==
  IF cfg.H_CORRECTION /\ p = 9
  THEN [step |-> stepNo + 1, phase |-> 9, arr |-> "x3Flux",
        face |-> <<ke + 1, je + 1, ie + 1>>]
  ELSE etah

\* eta_n[k][j][i] as Step 9a of step s computes it, 0.5*fabs(lambdar - lambdal)
\* with the wave speeds of cfast: non-negative values no law connects
eta(s, n, y) ==
  (s * 7 + n * 5 + y[1] * 3 + y[2] * 11 + y[3] * 13 + n * y[1] * y[3]) % 7

\* (mutant) etah without the eta of the face itself
etah_MAXNoSelf(s, a, x) ==
  LET k == x[1]
      j == x[2]
      i == x[3]
      e(n, dk, dj, di) == eta(s, n, <<k + dk, j + dj, i + di>>)
  IN IF a = "x1Flux"
     THEN Max2(Max2(Max2(Max2(e(2, 0, 0, -1), e(2, 0, 0, 0)),
                         e(2, 0, 1, -1)), e(2, 0, 1, 0)),
               Max2(Max2(Max2(e(3, 0, 0, -1), e(3, 0, 0, 0)),
                         e(3, 1, 0, -1)), e(3, 1, 0, 0)))
     ELSE IF a = "x2Flux"
     THEN Max2(Max2(Max2(Max2(e(1, 0, -1, 0), e(1, 0, 0, 0)),
                         e(1, 0, -1, 1)), e(1, 0, 0, 1)),
               Max2(Max2(Max2(e(3, 0, -1, 0), e(3, 0, 0, 0)),
                         e(3, 1, -1, 0)), e(3, 1, 0, 0)))
     ELSE Max2(Max2(Max2(Max2(e(1, -1, 0, 0), e(1, 0, 0, 0)),
                         e(1, -1, 0, 1)), e(1, 0, 0, 1)),
               Max2(Max2(Max2(e(2, -1, 0, 0), e(2, 0, 0, 0)),
                         e(2, -1, 1, 0)), e(2, 0, 1, 0)))

\* Steps 9b, 9c, 9d: the chain etah = MAX(..); etah = MAX(etah, ..) that
\* precedes the solver call for face x of flux array a in step s
etah_MAX(s, a, x) ==
  LET k == x[1]
      j == x[2]
      i == x[3]
      e(n, dk, dj, di) == eta(s, n, <<k + dk, j + dj, i + di>>)
      M(u, v) == Max2(u, v)
  IN IF a = "x1Flux"
     THEN M(M(M(M(M(M(M(M(e(2, 0, 0, -1), e(2, 0, 0, 0)),
                          e(2, 0, 1, -1)), e(2, 0, 1, 0)),
                      e(3, 0, 0, -1)), e(3, 0, 0, 0)),
                  e(3, 1, 0, -1)), e(3, 1, 0, 0)),
            e(1, 0, 0, 0))
     ELSE IF a = "x2Flux"
     THEN M(M(M(M(M(M(M(M(e(1, 0, -1, 0), e(1, 0, 0, 0)),
                          e(1, 0, -1, 1)), e(1, 0, 0, 1)),
                      e(3, 0, -1, 0)), e(3, 0, 0, 0)),
                  e(3, 1, -1, 0)), e(3, 1, 0, 0)),
            e(2, 0, 0, 0))
     ELSE M(M(M(M(M(M(M(M(e(1, -1, 0, 0), e(1, 0, 0, 0)),
                          e(1, -1, 0, 1)), e(1, 0, 0, 1)),
                      e(2, -1, 0, 0)), e(2, 0, 0, 0)),
                  e(2, -1, 1, 0)), e(2, 0, 1, 0)),
            e(3, 0, 0, 0))

\* the number etah holds when its last assignment is e; 0 stands for the
\* value it has before any Step 9 assigned it
EtahValue(e) ==
  IF e.phase = 9 THEN etah_MAX(e.step, e.arr, e.face) ELSE 0

SolverFaces(ops) ==
  UNION {{<<ops[n].arr, x>> : x \in ops[n].W} :
           n \in {m \in DOMAIN ops : ops[m].call = "GET_FLUXES"}}

\* faces of phase p whose solver call saw an etah not assigned for that face
EtahMissed(p, ops) ==
  {f \in SolverFaces(ops) :
     EtahSeen(p, f[1], f[2]) #
       [step |-> stepNo + 1, phase |-> p, arr |-> f[1], face |-> f[2]]}

NullCallee(ops, c) ==
  \E n \in DOMAIN ops :
    \/ ops[n].call = "StaticGravPot" /\ ~c.StaticGravPot
    \/ ops[n].call = "CoolingFunc" /\ ~c.CoolingFunc

NullArray(ops) ==
  \E a \in OpsArrays(ops) \cap ScratchNames : ptr[a] = 0

\* (mutant) control falls from STEP 3 to STEP 5
NextPhaseSkip4(p) == IF p = 3 THEN 5 ELSE p + 1

\* the steps are straight-line code: STEP p+1 follows STEP p
NextPhase(p) == p + 1

\* entry of integrate_3d_ctu: no check of the module state or of the grid size
CallStep ==
  /\ pc \in {"idle", "done"}
  /\ life \in {"new", "ready"}
  /\ stepNo < MaxSteps
  /\ pc' = "run"
  /\ phase' = 1
  /\ trace' = <<>>
  /\ stale' = [a \in ArrayNames |->
                 IF a \in ScratchNames /\ ptr[a] # 0
                 THEN Extent(a, allocN) ELSE {}]
  /\ etaDep' = [a \in ArrayNames |-> {}]
  /\ wrote' = [a \in ArrayNames |-> [q \in 1..NPhases |-> {}]]
  /\ etahMiss' = {}
  /\ calls' = {}
  /\ argStale' = FALSE
  /\ touched' = FALSE
  /\ UNCHANGED <<cfg, life, stepNo, etah, ptr, heap, nextBlk, allocN,
                 attempts, failed, errmsg, dblFree>>
  /\ UNCHANGED nvars
  /\ UNCHANGED lvars

Phase(p) ==
  LET ops == PhaseOps(p, cfg)
  IN /\ pc = "run"
     /\ phase = p
     /\ touched' = (touched \/ ops # <<>>)
     /\ IF NullArray(ops) \/ NullCallee(ops, cfg)
        THEN \* dereference of a NULL array or call through a NULL callback
             /\ pc' = "segv"
             /\ UNCHANGED <<phase, stepNo, trace, stale, etaDep, wrote, etah,
                            etahMiss, calls, argStale>>
        ELSE IF ~OpsInBounds(ops, allocN)
        THEN \* access beyond the extents of an allocated array
             /\ pc' \in {"segv", "undefined"}
             /\ UNCHANGED <<phase, stepNo, trace, stale, etaDep, wrote, etah,
                            etahMiss, calls, argStale>>
        ELSE /\ pc' = IF p = NPhases THEN "done" ELSE "run"
             /\ phase' = IF p = NPhases THEN p ELSE NextPhase(p)
             /\ stepNo' = IF p = NPhases THEN stepNo + 1 ELSE stepNo
             /\ trace' = IF ops = <<>> THEN trace ELSE Append(trace, p)
             /\ stale' = ApplyOps(stale, ops, 1, FALSE)
             /\ etaDep' = ApplyOps(etaDep, ops, 1,
                                   cfg.H_CORRECTION /\ EtahMissed(p, ops) # {})
             /\ wrote' = [a \in ArrayNames |->
                            [wrote[a] EXCEPT ![p] = WrittenBy(ops, a)]]
             /\ etah' = EtahAfter(p)
             /\ etahMiss' = IF cfg.H_CORRECTION /\ EtahMissed(p, ops) # {}
                            THEN etahMiss \cup {p} ELSE etahMiss
             /\ calls' = calls \cup
                  {<<p, ops[n].call>> : n \in {m \in DOMAIN ops : ops[m].call # ""}}
             /\ argStale' = (argStale \/ ArgsMarked(stale, ops, 1)
                                      \/ ArgsMarked(etaDep, ops, 1))
     /\ UNCHANGED <<cfg, life, ptr, heap, nextBlk, allocN, attempts, failed,
                    errmsg, dblFree>>
     /\ UNCHANGED nvars
     /\ UNCHANGED lvars

Step1 == Phase(1)
Step2 == Phase(2)
Step3 == Phase(3)
Step4 == Phase(4)
Step5 == Phase(5)
Step6 == Phase(6)
Step7 == Phase(7)
Step8 == Phase(8)
Step9 == Phase(9)
Step10 == Phase(10)
Step11 == Phase(11)
Step12 == Phase(12)

Init ==
  /\ cfg \in {c \in Configs : c.ix1 = (c.MHD /\ c.SHEARING_BOX) /\ c.ox1 = c.ix1}
  /\ LimUnset
  /\ life = "new"
  /\ pc = "idle"
  /\ phase = 0
  /\ stepNo = 0
  /\ trace = <<>>
  /\ stale = [a \in ArrayNames |-> {}]
  /\ etaDep = [a \in ArrayNames |-> {}]
  /\ wrote = [a \in ArrayNames |-> [q \in 1..NPhases |-> {}]]
  /\ etah = EtahInit
  /\ etahMiss = {}
  /\ calls = {}
  /\ argStale = FALSE
  /\ ptr = [a \in ScratchNames |-> 0]
  /\ heap = {}
  /\ nextBlk = 1
  /\ allocN = <<0, 0, 0>>
  /\ attempts = 0
  /\ failed = ""
  /\ errmsg = <<>>
  /\ touched = FALSE
  /\ dblFree = FALSE
  /\ NumUnset

InitCall ==
  \E nx1 \in {NX1 - 1, NX1} : \E failAt \in 0..Len(AllocOrder(cfg)) :
    integrate_init_3d(nx1, NX2, NX3, failAt)

Next ==
  \/ InitCall
  \/ CallStep
  \/ Step1 \/ Step2 \/ Step3 \/ Step4 \/ Step5 \/ Step6
  \/ Step7 \/ Step8 \/ Step9 \/ Step10 \/ Step11 \/ Step12
  \/ integrate_destruct_3d

Spec == Init /\ [][Next]_vars

\* ================================================================ SpecEnrol
\* hydrodynamic builds in which the problem code registers StaticGravPot or
\* CoolingFunc after integrate_init_3d has sized the scratch arrays: the
\* function pointer, NULL at the init call, is non-NULL at the next step
Enrol ==
  \E f \in {"StaticGravPot", "CoolingFunc"} :
    /\ pc \in {"idle", "done"}
    /\ life = "ready"
    /\ ~cfg[f]
    /\ cfg' = [cfg EXCEPT ![f] = TRUE]
    /\ UNCHANGED <<life, pc, phase, stepNo, trace, stale, etaDep, wrote, etah,
                   etahMiss, calls, argStale, ptr, heap, nextBlk, allocN,
                   attempts, failed, errmsg, touched, dblFree>>
    /\ UNCHANGED nvars
    /\ UNCHANGED lvars

InitEnrol ==
  /\ Init
  /\ ~cfg.MHD

NextEnrol ==
  \/ Next
  \/ Enrol

SpecEnrol == InitEnrol /\ [][NextEnrol]_vars

\* ================================================================ SpecHeap
\* integrate_init_3d and integrate_destruct_3d called in any order: init at
\* most twice with success, either of them after the other or after itself
MaxBlk(c) == Len(AllocOrder(c)) + 1

AnyInitCall ==
  \E nx1 \in {NX1 - 1, NX1} : \E failAt \in 0..Len(AllocOrder(cfg)) :
    /\ nextBlk <= MaxBlk(cfg)
    /\ integrate_init_3d_any(nx1, NX2, NX3, failAt)

NextHeap ==
  \/ AnyInitCall
  \/ integrate_destruct_3d_any

SpecHeap == Init /\ [][NextHeap]_vars

\* ================================================================= SpecNum
\* Steps 10-12 of integrate_3d_ctu on numbers, for the build with NSCALARS = 1,
\* without BAROTROPIC and SELF_GRAVITY, and with FARGO when SHEARING_BOX is
\* set; MHD and SHEARING_BOX are the flags of cfg.  Reals are integers: every
\* number that enters (grid data, fluxes, cell-centred EMFs, remapped Ey) is a
\* multiple of 32, which makes the factors 0.5 and 0.25 of the code exact.

Half(x) == x \div 2
Quarter(x) == x \div 4

Seeds == 1..NSeeds

\* live cells [ks..ke] x [js..je] x [is..ie]
LiveCells == Cells3(KR(0, 0), JR(0, 0), IR(0, 0))
\* the faces and cells from which the corner EMFs on the edges of the live
\* cells are computed
FluxBox == Cells3(KR(-1, 1), JR(-1, 1), IR(-1, 1))
\* faces of the live cells, one extra layer on the upper side of each axis
FaceBox == Cells3(KR(0, 1), JR(0, 1), IR(0, 1))
Plane == {<<k, j>> : k \in KR(0, 1), j \in JR(0, 0)}

\* a family of values no law connects: what the reconstruction, the Riemann
\* solver and the boundary remap hand back, and the data of the problem
Rnd(sd, tag, x) ==
  LET a == sd * 13 + tag * 7 + x[1] * 5 + x[2] * 3 + x[3]
  IN 32 * (((a * a + a * x[1] * x[3] + tag * x[2]) % 7) - 3)

\* a periodic domain: the value at a face is the value one period away
Wrap(x) == <<ks + ((x[1] - ks) % NX3), js + ((x[2] - js) % NX2),
             is + ((x[3] - is) % NX1)>>

\* one Cons1D flux vector (d, Mx, My, Mz, E, s[0], By, Bz)
Cons1D(sd, tag, x) ==
  [d  |-> Rnd(sd, tag, x),     Mx |-> Rnd(sd, tag + 1, x),
   My |-> Rnd(sd, tag + 2, x), Mz |-> Rnd(sd, tag + 3, x),
   E  |-> Rnd(sd, tag + 4, x), s  |-> Rnd(sd, tag + 5, x),
   By |-> Rnd(sd, tag + 6, x), Bz |-> Rnd(sd, tag + 7, x)]

\* Steps 1-9 of one call: they leave pG->U and pG->B?i alone and fill the
\* fluxes, the cell-centred EMFs and the half-step density and pressure
Steps1to9 ==
  LET at(x) == IF periodic THEN Wrap(x) ELSE x
      sd    == (seed % NSeeds) + 1
  IN /\ pc \in {"idle", "done"}
     /\ seed' = sd
     /\ stepNo < MaxSteps
     /\ pc' = "run"
     /\ phase' = 10
     /\ U0' = U
     /\ x1Flux' = [x \in FluxBox |-> Cons1D(sd, 10, at(x))]
     /\ x2Flux' = [x \in FluxBox |-> Cons1D(sd, 20, at(x))]
     /\ x3Flux' = [x \in FluxBox |-> Cons1D(sd, 30, at(x))]
     /\ IF cfg.MHD
        THEN /\ emf1_cc' = [x \in FluxBox |-> Rnd(sd, 41, x)]
             /\ emf2_cc' = [x \in FluxBox |-> Rnd(sd, 42, x)]
             /\ emf3_cc' = [x \in FluxBox |-> Rnd(sd, 43, x)]
        ELSE UNCHANGED <<emf1_cc, emf2_cc, emf3_cc>>
     /\ dhalf' = [x \in LiveCells |-> Rnd(sd, 51, x)]
     /\ phalf' = [x \in LiveCells |-> Rnd(sd, 52, x)]
     /\ UNCHANGED <<cfg, stepNo, U, B1i, B2i, B3i, emf1, emf2, emf3,
                    remapEyiib, remapEyoib, dtodx, periodic>>
     /\ UNCHANGED frest
     /\ UNCHANGED lvars
     /\ UNCHANGED hvars

\* (mutant) the difference taken from the downwind side
UpwindSwapped(mflux, l, r) ==
  IF mflux > 0 THEN r ELSE IF mflux < 0 THEN l ELSE Half(l + r)

\* the upwinded difference of an EMF across a face: by the sign of the mass
\* flux the value on the left, on the right, or their mean
Upwind(mflux, l, r) == IF mflux > 0 THEN l ELSE IF mflux < 0 THEN r ELSE Half(l + r)

\* (mutant) the corner EMF with the cell-centred EMFs left out of the
\* differences
emf1_cornerNoCc(k, j, i) ==
  LET de1_l3 == Upwind(x2Flux[k-1, j, i].d,
                       x3Flux[k, j-1, i].Bz, x3Flux[k, j, i].Bz)
      de1_r3 == Upwind(x2Flux[k, j, i].d,
                       x3Flux[k, j-1, i].Bz, x3Flux[k, j, i].Bz)
      de1_l2 == Upwind(x3Flux[k, j-1, i].d,
                       0 - x2Flux[k-1, j, i].By, 0 - x2Flux[k, j, i].By)
      de1_r2 == Upwind(x3Flux[k, j, i].d,
                       0 - x2Flux[k-1, j, i].By, 0 - x2Flux[k, j, i].By)
  IN Quarter(x3Flux[k, j, i].Bz + x3Flux[k, j-1, i].Bz
             - x2Flux[k, j, i].By - x2Flux[k-1, j, i].By
             + de1_l2 + de1_r2 + de1_l3 + de1_r3)

emf1_corner(k, j, i) ==
  LET de1_l3 == Upwind(x2Flux[k-1, j, i].d,
                       x3Flux[k, j-1, i].Bz - emf1_cc[k-1, j-1, i],
                       x3Flux[k, j, i].Bz - emf1_cc[k-1, j, i])
      de1_r3 == Upwind(x2Flux[k, j, i].d,
                       x3Flux[k, j-1, i].Bz - emf1_cc[k, j-1, i],
                       x3Flux[k, j, i].Bz - emf1_cc[k, j, i])
      de1_l2 == Upwind(x3Flux[k, j-1, i].d,
                       (0 - x2Flux[k-1, j, i].By) - emf1_cc[k-1, j-1, i],
                       (0 - x2Flux[k, j, i].By) - emf1_cc[k, j-1, i])
      de1_r2 == Upwind(x3Flux[k, j, i].d,
                       (0 - x2Flux[k-1, j, i].By) - emf1_cc[k-1, j, i],
                       (0 - x2Flux[k, j, i].By) - emf1_cc[k, j, i])
  IN Quarter(x3Flux[k, j, i].Bz + x3Flux[k, j-1, i].Bz
             - x2Flux[k, j, i].By - x2Flux[k-1, j, i].By
             + de1_l2 + de1_r2 + de1_l3 + de1_r3)

emf2_corner(k, j, i) ==
  LET de2_l3 == Upwind(x1Flux[k-1, j, i].d,
                       (0 - x3Flux[k, j, i-1].By) - emf2_cc[k-1, j, i-1],
                       (0 - x3Flux[k, j, i].By) - emf2_cc[k-1, j, i])
      de2_r3 == Upwind(x1Flux[k, j, i].d,
                       (0 - x3Flux[k, j, i-1].By) - emf2_cc[k, j, i-1],
                       (0 - x3Flux[k, j, i].By) - emf2_cc[k, j, i])
      de2_l1 == Upwind(x3Flux[k, j, i-1].d,
                       x1Flux[k-1, j, i].Bz - emf2_cc[k-1, j, i-1],
                       x1Flux[k, j, i].Bz - emf2_cc[k, j, i-1])
      de2_r1 == Upwind(x3Flux[k, j, i].d,
                       x1Flux[k-1, j, i].Bz - emf2_cc[k-1, j, i],
                       x1Flux[k, j, i].Bz - emf2_cc[k, j, i])
  IN Quarter(x1Flux[k, j, i].Bz + x1Flux[k-1, j, i].Bz
             - x3Flux[k, j, i].By - x3Flux[k, j, i-1].By
             + de2_l1 + de2_r1 + de2_l3 + de2_r3)

emf3_corner(k, j, i) ==
  LET de3_l2 == Upwind(x1Flux[k, j-1, i].d,
                       x2Flux[k, j, i-1].Bz - emf3_cc[k, j-1, i-1],
                       x2Flux[k, j, i].Bz - emf3_cc[k, j-1, i])
      de3_r2 == Upwind(x1Flux[k, j, i].d,
                       x2Flux[k, j, i-1].Bz - emf3_cc[k, j, i-1],
                       x2Flux[k, j, i].Bz - emf3_cc[k, j, i])
      de3_l1 == Upwind(x2Flux[k, j, i-1].d,
                       (0 - x1Flux[k, j-1, i].By) - emf3_cc[k, j-1, i-1],
                       (0 - x1Flux[k, j, i].By) - emf3_cc[k, j, i-1])
      de3_r1 == Upwind(x2Flux[k, j, i].d,
                       (0 - x1Flux[k, j-1, i].By) - emf3_cc[k, j-1, i],
                       (0 - x1Flux[k, j, i].By) - emf3_cc[k, j, i])
  IN Quarter(x2Flux[k, j, i-1].Bz + x2Flux[k, j, i].Bz
             - x1Flux[k, j-1, i].By - x1Flux[k, j, i].By
             + de3_l1 + de3_r1 + de3_l2 + de3_r2)

\* RemapEy_ix1 / RemapEy_ox1 (shearing-sheet boundary code): Ey of the
\* opposite side of the domain (x1-face i of e2), remapped in y.  In a periodic
\* domain the two sides have not sheared apart and the remap is the copy;
\* otherwise the remapped values are values no law connects
RemapEy(sd, tag, e2, i) ==
  [y \in Plane |-> IF periodic THEN e2[y[1], y[2], i]
                   ELSE Rnd(sd, tag, <<y[1], y[2], 0>>)]

\* Step 10a: average Ey and the remapped Ey on the x1-faces of the domain
AverageEy(e2, rI, rO, c) ==
  [x \in DOMAIN e2 |->
     IF c.SHEARING_BOX /\ c.ix1 /\ x[3] = is /\ <<x[1], x[2]>> \in Plane
     THEN Half(e2[x] + rI[x[1], x[2]])
     ELSE IF c.SHEARING_BOX /\ c.ox1 /\ x[3] = ie + 1 /\ <<x[1], x[2]>> \in Plane
     THEN Half(e2[x] + rO[x[1], x[2]])
     ELSE e2[x]]

\* (mutant) the x1-face field updated with dtodx2 for both differences
CT_B1_OneSpacing(B, e2, e3, q, k, j, i) ==
  B[k, j, i] + q[2] * (e2[k+1, j, i] - e2[k, j, i])
             - q[2] * (e3[k, j+1, i] - e3[k, j, i])

\* Step 10b: constrained transport of the face-centred fields
CT_B1(B, e2, e3, q, k, j, i) ==
  B[k, j, i] + q[3] * (e2[k+1, j, i] - e2[k, j, i])
             - q[2] * (e3[k, j+1, i] - e3[k, j, i])

CT_B2(B, e1, e3, q, k, j, i) ==
  B[k, j, i] + q[1] * (e3[k, j, i+1] - e3[k, j, i])
             - q[3] * (e1[k+1, j, i] - e1[k, j, i])

CT_B3(B, e1, e2, q, k, j, i) ==
  B[k, j, i] + q[2] * (e1[k, j+1, i] - e1[k, j, i])
             - q[1] * (e2[k, j, i+1] - e2[k, j, i])

\* the faces Step 10b updates: those of the live cells, and the layer at
\* ie+1 (je+1, ke+1) above live cells
Faces1 == Cells3(KR(0, 0), JR(0, 0), IR(0, 1))
Faces2 == Cells3(KR(0, 0), JR(0, 1), IR(0, 0))
Faces3 == Cells3(KR(0, 1), JR(0, 0), IR(0, 0))

\* the edges of the live cells: the corner EMFs Step 10b reads (the loops of
\* the corner functions run further into the ghost zones; nothing reads those
\* values before the next call overwrites them)
Edges1 == Cells3(KR(0, 1), JR(0, 1), IR(0, 0))
Edges2 == Cells3(KR(0, 1), JR(0, 0), IR(0, 1))
Edges3 == Cells3(KR(0, 0), JR(0, 1), IR(0, 1))

\* STEP 10 (MHD only): corner EMFs, shearing-box average, CT update
Step10Num ==
  /\ pc = "run"
  /\ phase = 10
  /\ phase' = 11
  /\ IF ~cfg.MHD
     THEN UNCHANGED <<emf1, emf2, emf3, remapEyiib, remapEyoib, B1i, B2i, B3i>>
     ELSE
       LET e1 == [x \in Edges1 |-> emf1_corner(x[1], x[2], x[3])]
           e2 == [x \in Edges2 |-> emf2_corner(x[1], x[2], x[3])]
           e3 == [x \in Edges3 |-> emf3_corner(x[1], x[2], x[3])]
           rI == IF cfg.SHEARING_BOX /\ cfg.ix1
                 THEN RemapEy(seed, 61, e2, ie + 1) ELSE remapEyiib
           rO == IF cfg.SHEARING_BOX /\ cfg.ox1
                 THEN RemapEy(seed, 62, e2, is) ELSE remapEyoib
           ea == AverageEy(e2, rI, rO, cfg)
       IN /\ emf1' = e1
          /\ emf2' = ea
          /\ emf3' = e3
          /\ remapEyiib' = rI
          /\ remapEyoib' = rO
          /\ B1i' = [x \in DOMAIN B1i |->
                       IF x \in Faces1
                       THEN CT_B1(B1i, ea, e3, dtodx, x[1], x[2], x[3])
                       ELSE B1i[x]]
          /\ B2i' = [x \in DOMAIN B2i |->
                       IF x \in Faces2
                       THEN CT_B2(B2i, e1, e3, dtodx, x[1], x[2], x[3])
                       ELSE B2i[x]]
          /\ B3i' = [x \in DOMAIN B3i |->
                       IF x \in Faces3
                       THEN CT_B3(B3i, e1, ea, dtodx, x[1], x[2], x[3])
                       ELSE B3i[x]]
  /\ UNCHANGED <<cfg, pc, stepNo, U, U0, x1Flux, x2Flux, x3Flux,
                 emf1_cc, emf2_cc, emf3_cc, dhalf, phalf, dtodx, seed,
                 periodic>>
  /\ UNCHANGED frest
  /\ UNCHANGED lvars
  /\ UNCHANGED hvars

\* ------------------------------------------------------------------ Step 11
dt == 2
Omega == 1
om_dt == Omega * dt
\* fact = om_dt/(1.0 + 0.25*om_dt*om_dt)
fact == (4 * om_dt) \div (4 + om_dt * om_dt)

\* (mutant) the x1-flux difference taken across two cells
D1Wide(f, k, j, i) == dtodx[1] * (x1Flux[k, j, i+1][f] - x1Flux[k, j, i-1][f])

\* dtodx?*(x?Flux[next face] - x?Flux[this face]) of one flux component
D1(f, k, j, i) == dtodx[1] * (x1Flux[k, j, i+1][f] - x1Flux[k, j, i][f])
D2(f, k, j, i) == dtodx[2] * (x2Flux[k, j+1, i][f] - x2Flux[k, j, i][f])
D3(f, k, j, i) == dtodx[3] * (x3Flux[k+1, j, i][f] - x3Flux[k, j, i][f])

\* the user's static potential at a position; positions are counted in half
\* cells (cc_pos of cell i is 2*i, its faces are 2*i-1 and 2*i+1)
StaticGravPot(x1, x2, x3) == (x1 * x1 + 3 * x2 + x2 * x3) % 5

\* the user's cooling function of (d, P, dt)
CoolingFunc(d, P, t) == d + P

\* the energy source in the cell-centred form d-flux times (phir - phil): the
\* form the symmetric one replaces
GravECentred(u, k, j, i) ==
  LET e1 == dtodx[1] * x1Flux[k, j, i].d
              * (StaticGravPot(2*i + 1, 2*j, 2*k) - StaticGravPot(2*i - 1, 2*j, 2*k))
      e2 == dtodx[2] * x2Flux[k, j, i].d
              * (StaticGravPot(2*i, 2*j + 1, 2*k) - StaticGravPot(2*i, 2*j - 1, 2*k))
      e3 == dtodx[3] * x3Flux[k, j, i].d
              * (StaticGravPot(2*i, 2*j, 2*k + 1) - StaticGravPot(2*i, 2*j, 2*k - 1))
  IN u.E - e1 - e2 - e3

\* energy source of the static potential, axis by axis (Step 11a)
GravE(u, k, j, i) ==
  LET phic == StaticGravPot(2*i, 2*j, 2*k)
      e1 == dtodx[1] * (x1Flux[k, j, i].d * (phic - StaticGravPot(2*i - 1, 2*j, 2*k))
              + x1Flux[k, j, i+1].d * (StaticGravPot(2*i + 1, 2*j, 2*k) - phic))
      e2 == dtodx[2] * (x2Flux[k, j, i].d * (phic - StaticGravPot(2*i, 2*j - 1, 2*k))
              + x2Flux[k, j+1, i].d * (StaticGravPot(2*i, 2*j + 1, 2*k) - phic))
      e3 == dtodx[3] * (x3Flux[k, j, i].d * (phic - StaticGravPot(2*i, 2*j, 2*k - 1))
              + x3Flux[k+1, j, i].d * (StaticGravPot(2*i, 2*j, 2*k + 1) - phic))
  IN u.E - e1 - e2 - e3

GravM(u, dh, k, j, i) ==
  [M1 |-> u.M1 - dtodx[1] * (StaticGravPot(2*i + 1, 2*j, 2*k)
                             - StaticGravPot(2*i - 1, 2*j, 2*k)) * dh,
   M2 |-> u.M2 - dtodx[2] * (StaticGravPot(2*i, 2*j + 1, 2*k)
                             - StaticGravPot(2*i, 2*j - 1, 2*k)) * dh,
   M3 |-> u.M3 - dtodx[3] * (StaticGravPot(2*i, 2*j, 2*k + 1)
                             - StaticGravPot(2*i, 2*j, 2*k - 1)) * dh]

\* Step 11a without SHEARING_BOX: momentum and energy sources of the potential
StaticSource(u, k, j, i) ==
  LET m == GravM(u, dhalf[k, j, i], k, j, i)
  IN [u EXCEPT !.M1 = m.M1, !.M2 = m.M2, !.M3 = m.M3, !.E = GravE(u, k, j, i)]

\* Step 11a with SHEARING_BOX (FARGO): Crank-Nicholson update of the Coriolis
\* and tidal terms, then the energy and M3 sources of the potential
ShearingBoxSource(u, k, j, i) ==
  LET M1e  == u.M1 - Half(D1("Mx", k, j, i)) - Half(D2("Mz", k, j, i))
                   - Half(D3("My", k, j, i))
      dM2e == u.M2 - Half(D1("My", k, j, i)) - Half(D2("Mx", k, j, i))
                   - Half(D3("Mz", k, j, i))
      m    == GravM(u, dhalf[k, j, i], k, j, i)
  IN [u EXCEPT !.M1 = @ + (2 * dM2e - Half(om_dt * M1e)) * fact,
               !.M2 = @ - Half(M1e + om_dt * dM2e) * fact,
               !.M3 = m.M3,
               !.E  = GravE(u, k, j, i)]

\* ------------------------------------------------------------ Step 11b
four_pi_G == 1
grav_mean_rho == 1

\* pG->Phi[k][j][i], ghost zones included: data the step only reads
Phi(k, j, i) ==
  Rnd(seed, 60, IF periodic THEN Wrap(<<k, j, i>>) ELSE <<k, j, i>>)

\* 0.5*(a*a - b*b - c*c)/four_pi_G and a*b/four_pi_G of accelerations a, b, c
\* that are held as dt*g (1/dx = dtodx/dt)
flx_diag(a, b, c) == (a * a - b * b - c * c) \div (2 * dt * dt * four_pi_G)
flx_off(a, b) == (a * b) \div (dt * dt * four_pi_G)

\* (mutant) the d/dx1 terms with gyr centred on the cell instead of the face
SelfG_x1Centred(k, j, i) ==
  LET phil == Half(Phi(k, j, i-1) + Phi(k, j, i))
      phir == Half(Phi(k, j, i) + Phi(k, j, i+1))
      gxl == (Phi(k, j, i-1) - Phi(k, j, i)) * dtodx[1]
      gxr == (Phi(k, j, i) - Phi(k, j, i+1)) * dtodx[1]
      gyl == Quarter((Phi(k, j-1, i-1) - Phi(k, j+1, i-1))
                     + (Phi(k, j-1, i) - Phi(k, j+1, i))) * dtodx[2]
      gyr == Quarter((Phi(k, j-1, i) - Phi(k, j+1, i))
                     + (Phi(k, j-1, i) - Phi(k, j+1, i))) * dtodx[2]
      gzl == Quarter((Phi(k-1, j, i-1) - Phi(k+1, j, i-1))
                     + (Phi(k-1, j, i) - Phi(k+1, j, i))) * dtodx[3]
      gzr == Quarter((Phi(k-1, j, i) - Phi(k+1, j, i))
                     + (Phi(k-1, j, i+1) - Phi(k+1, j, i+1))) * dtodx[3]
  IN [phic |-> Phi(k, j, i), phil |-> phil, phir |-> phir,
      m1l |-> flx_diag(gxl, gyl, gzl) + grav_mean_rho * phil,
      m1r |-> flx_diag(gxr, gyr, gzr) + grav_mean_rho * phir,
      m2l |-> flx_off(gxl, gyl), m2r |-> flx_off(gxr, gyr),
      m3l |-> flx_off(gxl, gzl), m3r |-> flx_off(gxr, gzr)]

\* the potentials and momentum fluxes of the d/dx1 loop at cell (k,j,i)
SelfG_x1(k, j, i) ==
  LET phil == Half(Phi(k, j, i-1) + Phi(k, j, i))
      phir == Half(Phi(k, j, i) + Phi(k, j, i+1))
      gxl == (Phi(k, j, i-1) - Phi(k, j, i)) * dtodx[1]
      gxr == (Phi(k, j, i) - Phi(k, j, i+1)) * dtodx[1]
      gyl == Quarter((Phi(k, j-1, i-1) - Phi(k, j+1, i-1))
                     + (Phi(k, j-1, i) - Phi(k, j+1, i))) * dtodx[2]
      gyr == Quarter((Phi(k, j-1, i) - Phi(k, j+1, i))
                     + (Phi(k, j-1, i+1) - Phi(k, j+1, i+1))) * dtodx[2]
      gzl == Quarter((Phi(k-1, j, i-1) - Phi(k+1, j, i-1))
                     + (Phi(k-1, j, i) - Phi(k+1, j, i))) * dtodx[3]
      gzr == Quarter((Phi(k-1, j, i) - Phi(k+1, j, i))
                     + (Phi(k-1, j, i+1) - Phi(k+1, j, i+1))) * dtodx[3]
  IN [phic |-> Phi(k, j, i), phil |-> phil, phir |-> phir,
      m1l |-> flx_diag(gxl, gyl, gzl) + grav_mean_rho * phil,
      m1r |-> flx_diag(gxr, gyr, gzr) + grav_mean_rho * phir,
      m2l |-> flx_off(gxl, gyl), m2r |-> flx_off(gxr, gyr),
      m3l |-> flx_off(gxl, gzl), m3r |-> flx_off(gxr, gzr)]

\* the potentials and momentum fluxes of the d/dx2 loop at cell (k,j,i)
SelfG_x2(k, j, i) ==
  LET phil == Half(Phi(k, j-1, i) + Phi(k, j, i))
      phir == Half(Phi(k, j, i) + Phi(k, j+1, i))
      gxl == Quarter((Phi(k, j-1, i-1) - Phi(k, j-1, i+1))
                     + (Phi(k, j, i-1) - Phi(k, j, i+1))) * dtodx[1]
      gxr == Quarter((Phi(k, j, i-1) - Phi(k, j, i+1))
                     + (Phi(k, j+1, i-1) - Phi(k, j+1, i+1))) * dtodx[1]
      gyl == (Phi(k, j-1, i) - Phi(k, j, i)) * dtodx[2]
      gyr == (Phi(k, j, i) - Phi(k, j+1, i)) * dtodx[2]
      gzl == Quarter((Phi(k-1, j-1, i) - Phi(k+1, j-1, i))
                     + (Phi(k-1, j, i) - Phi(k+1, j, i))) * dtodx[3]
      gzr == Quarter((Phi(k-1, j, i) - Phi(k+1, j, i))
                     + (Phi(k-1, j+1, i) - Phi(k+1, j+1, i))) * dtodx[3]
  IN [phic |-> Phi(k, j, i), phil |-> phil, phir |-> phir,
      m1l |-> flx_off(gyl, gxl), m1r |-> flx_off(gyr, gxr),
      m2l |-> flx_diag(gyl, gxl, gzl) + grav_mean_rho * phil,
      m2r |-> flx_diag(gyr, gxr, gzr) + grav_mean_rho * phir,
      m3l |-> flx_off(gyl, gzl), m3r |-> flx_off(gyr, gzr)]

\* the potentials and momentum fluxes of the d/dx3 loop at cell (k,j,i)
SelfG_x3(k, j, i) ==
  LET phil == Half(Phi(k-1, j, i) + Phi(k, j, i))
      phir == Half(Phi(k, j, i) + Phi(k+1, j, i))
      gxl == Quarter((Phi(k-1, j, i-1) - Phi(k-1, j, i+1))
                     + (Phi(k, j, i-1) - Phi(k, j, i+1))) * dtodx[1]
      gxr == Quarter((Phi(k, j, i-1) - Phi(k, j, i+1))
                     + (Phi(k+1, j, i-1) - Phi(k+1, j, i+1))) * dtodx[1]
      gyl == Quarter((Phi(k-1, j-1, i) - Phi(k-1, j+1, i))
                     + (Phi(k, j-1, i) - Phi(k, j+1, i))) * dtodx[2]
      gyr == Quarter((Phi(k, j-1, i) - Phi(k, j+1, i))
                     + (Phi(k+1, j-1, i) - Phi(k+1, j+1, i))) * dtodx[2]
      gzl == (Phi(k-1, j, i) - Phi(k, j, i)) * dtodx[3]
      gzr == (Phi(k, j, i) - Phi(k+1, j, i)) * dtodx[3]
  IN [phic |-> Phi(k, j, i), phil |-> phil, phir |-> phir,
      m1l |-> flx_off(gzl, gxl), m1r |-> flx_off(gzr, gxr),
      m2l |-> flx_off(gzl, gyl), m2r |-> flx_off(gzr, gyr),
      m3l |-> flx_diag(gzl, gxl, gyl) + grav_mean_rho * phil,
      m3r |-> flx_diag(gzr, gxr, gyr) + grav_mean_rho * phir]

\* Step 11b: the three loops, each subtracting dt/dx times the difference of
\* its momentum fluxes and adding the energy source of the mass fluxes
SelfGravity(u, k, j, i) ==
  LET a == SelfG_x1(k, j, i)
      b == SelfG_x2(k, j, i)
      c == SelfG_x3(k, j, i)
  IN [u EXCEPT
        !.M1 = @ - dtodx[1] * (a.m1r - a.m1l) - dtodx[2] * (b.m1r - b.m1l)
                 - dtodx[3] * (c.m1r - c.m1l),
        !.M2 = @ - dtodx[1] * (a.m2r - a.m2l) - dtodx[2] * (b.m2r - b.m2l)
                 - dtodx[3] * (c.m2r - c.m2l),
        !.M3 = @ - dtodx[1] * (a.m3r - a.m3l) - dtodx[2] * (b.m3r - b.m3l)
                 - dtodx[3] * (c.m3r - c.m3l),
        !.E  = @ - dtodx[1] * (x1Flux[k, j, i].d * (a.phic - a.phil)
                               + x1Flux[k, j, i+1].d * (a.phir - a.phic))
                 - dtodx[2] * (x2Flux[k, j, i].d * (b.phic - b.phil)
                               + x2Flux[k, j+1, i].d * (b.phir - b.phic))
                 - dtodx[3] * (x3Flux[k, j, i].d * (c.phic - c.phil)
                               + x3Flux[k+1, j, i].d * (c.phir - c.phic))]

\* Step 11c: optically thin cooling
Cooling(u, k, j, i) ==
  [u EXCEPT !.E = @ - dt * CoolingFunc(dhalf[k, j, i], phalf[k, j, i], dt)]

\* STEP 11: source terms for a full time step
Step11Num ==
  /\ pc = "run"
  /\ phase = 11
  /\ IF cfg.SHEARING_BOX /\ ~cfg.StaticGravPot
     THEN \* (*StaticGravPot)(...) through a NULL pointer
          /\ pc' = "segv"
          /\ UNCHANGED <<phase, U>>
     ELSE LET a(u, x) == IF cfg.SHEARING_BOX
                         THEN ShearingBoxSource(u, x[1], x[2], x[3])
                         ELSE IF cfg.StaticGravPot
                         THEN StaticSource(u, x[1], x[2], x[3])
                         ELSE u
              g(u, x) == IF cfg.SELF_GRAVITY
                         THEN SelfGravity(u, x[1], x[2], x[3]) ELSE u
              c(u, x) == IF cfg.CoolingFunc
                         THEN Cooling(u, x[1], x[2], x[3]) ELSE u
          IN /\ U' = [x \in DOMAIN U |-> c(g(a(U[x], x), x), x)]
             /\ phase' = 12
             /\ UNCHANGED pc
  /\ UNCHANGED <<cfg, stepNo, U0, B1i, B2i, B3i, x1Flux, x2Flux, x3Flux,
                 emf1, emf2, emf3, emf1_cc, emf2_cc, emf3_cc, dhalf, phalf,
                 remapEyiib, remapEyoib, dtodx, seed, periodic>>
  /\ UNCHANGED frest
  /\ UNCHANGED lvars
  /\ UNCHANGED hvars

\* ------------------------------------------------------------------ Step 12
\* Steps 12a-12c: the conserved variables change by the difference of the
\* fluxes; the components of each flux vector are permuted back to (1,2,3)
Step12abc(u, k, j, i) ==
  [u EXCEPT
     !.d  = @ - D1("d", k, j, i)  - D2("d", k, j, i)  - D3("d", k, j, i),
     !.M1 = @ - D1("Mx", k, j, i) - D2("Mz", k, j, i) - D3("My", k, j, i),
     !.M2 = @ - D1("My", k, j, i) - D2("Mx", k, j, i) - D3("Mz", k, j, i),
     !.M3 = @ - D1("Mz", k, j, i) - D2("My", k, j, i) - D3("Mx", k, j, i),
     !.E  = @ - D1("E", k, j, i)  - D2("E", k, j, i)  - D3("E", k, j, i),
     !.s  = @ - D1("s", k, j, i)  - D2("s", k, j, i)  - D3("s", k, j, i)]

\* (mutant) the cell-centred field taken from the lower face alone
Step12dLowerFace(u, k, j, i) ==
  [u EXCEPT !.B1c = B1i[k, j, i], !.B2c = B2i[k, j, i], !.B3c = B3i[k, j, i]]

\* Step 12d: cell-centred field = mean of the two faces of the cell
Step12d(u, k, j, i) ==
  [u EXCEPT !.B1c = Half(B1i[k, j, i] + B1i[k, j, i+1]),
            !.B2c = Half(B2i[k, j, i] + B2i[k, j+1, i]),
            !.B3c = Half(B3i[k, j, i] + B3i[k+1, j, i])]

\* STEP 12: update of the cell-centred variables
Step12Num ==
  /\ pc = "run"
  /\ phase = 12
  /\ U' = [x \in DOMAIN U |->
             LET u == Step12abc(U[x], x[1], x[2], x[3])
             IN IF cfg.MHD THEN Step12d(u, x[1], x[2], x[3]) ELSE u]
  /\ pc' = "done"
  /\ stepNo' = stepNo + 1
  /\ UNCHANGED <<cfg, phase, U0, B1i, B2i, B3i, x1Flux, x2Flux, x3Flux,
                 emf1, emf2, emf3, emf1_cc, emf2_cc, emf3_cc, dhalf, phalf,
                 remapEyiib, remapEyoib, dtodx, seed, periodic>>
  /\ UNCHANGED frest
  /\ UNCHANGED lvars
  /\ UNCHANGED hvars

\* --------------------------------------------------------- initial grid data
\* a divergence-free field: the difference curl of a vector potential
\* (A1, A2, A3) on the cell edges, weighted with the cell spacings
CurlA(sd, q) ==
  LET A(n, k, j, i) == Rnd(sd, 70 + n, IF periodic THEN Wrap(<<k, j, i>>)
                                       ELSE <<k, j, i>>)
  IN [B1 |-> [x \in FaceBox |-> q[2] * q[3] *
                ((A(3, x[1], x[2] + 1, x[3]) - A(3, x[1], x[2], x[3]))
                 - (A(2, x[1] + 1, x[2], x[3]) - A(2, x[1], x[2], x[3])))],
      B2 |-> [x \in FaceBox |-> q[1] * q[3] *
                ((A(1, x[1] + 1, x[2], x[3]) - A(1, x[1], x[2], x[3]))
                 - (A(3, x[1], x[2], x[3] + 1) - A(3, x[1], x[2], x[3])))],
      B3 |-> [x \in FaceBox |-> q[1] * q[2] *
                ((A(2, x[1], x[2], x[3] + 1) - A(2, x[1], x[2], x[3]))
                 - (A(1, x[1], x[2] + 1, x[3]) - A(1, x[1], x[2], x[3])))]]

NumConfigs ==
  {c \in Configs : /\ ~c.H_CORRECTION
                   /\ ~c.SELF_GRAVITY}

InitNum ==
  /\ cfg \in NumConfigs
  /\ LimUnset
  /\ life = "ready"
  /\ pc = "idle"
  /\ phase = 0
  /\ stepNo = 0
  /\ trace = <<>>
  /\ stale = [a \in ArrayNames |-> {}]
  /\ etaDep = [a \in ArrayNames |-> {}]
  /\ wrote = [a \in ArrayNames |-> [q \in 1..NPhases |-> {}]]
  /\ etah = EtahInit
  /\ etahMiss = {}
  /\ calls = {}
  /\ argStale = FALSE
  /\ ptr = [a \in ScratchNames |-> 0]
  /\ heap = {}
  /\ nextBlk = 1
  /\ allocN = GridN
  /\ attempts = 0
  /\ failed = ""
  /\ errmsg = <<>>
  /\ touched = FALSE
  /\ dblFree = FALSE
  /\ seed \in Seeds
  /\ periodic \in BOOLEAN
  /\ dtodx \in {<<1, 2, 3>>, <<2, 1, 1>>}
  /\ LET b == CurlA(seed, dtodx)
       IN /\ B1i = IF cfg.MHD THEN b.B1 ELSE <<>>
          /\ B2i = IF cfg.MHD THEN b.B2 ELSE <<>>
          /\ B3i = IF cfg.MHD THEN b.B3 ELSE <<>>
          /\ U = [x \in LiveCells |->
                    [d  |-> Rnd(seed, 1, x), M1 |-> Rnd(seed, 2, x),
                     M2 |-> Rnd(seed, 3, x), M3 |-> Rnd(seed, 4, x),
                     E  |-> Rnd(seed, 5, x), s  |-> Rnd(seed, 6, x),
                     B1c |-> IF cfg.MHD
                             THEN Half(b.B1[x] + b.B1[x[1], x[2], x[3] + 1])
                             ELSE 0,
                     B2c |-> IF cfg.MHD
                             THEN Half(b.B2[x] + b.B2[x[1], x[2] + 1, x[3]])
                             ELSE 0,
                     B3c |-> IF cfg.MHD
                             THEN Half(b.B3[x] + b.B3[x[1] + 1, x[2], x[3]])
                             ELSE 0]]
  /\ U0 = U
  /\ x1Flux = <<>>
  /\ x2Flux = <<>>
  /\ x3Flux = <<>>
  /\ emf1 = <<>>
  /\ emf2 = <<>>
  /\ emf3 = <<>>
  /\ emf1_cc = <<>>
  /\ emf2_cc = <<>>
  /\ emf3_cc = <<>>
  /\ dhalf = <<>>
  /\ phalf = <<>>
  /\ remapEyiib = <<>>
  /\ remapEyoib = <<>>
  /\ HalfUnset

NextNum ==
  \/ Steps1to9
  \/ Step10Num
  \/ Step11Num
  \/ Step12Num

SpecNum == InitNum /\ [][NextNum]_vars

\* ================================================================ SpecGrav
\* Steps 10-12 on numbers for the hydrodynamic builds with SELF_GRAVITY
GravConfigs ==
  {c \in Configs : /\ c.SELF_GRAVITY
                   /\ ~c.H_CORRECTION
                   /\ ~c.MHD
                   /\ ~c.SHEARING_BOX}

InitGrav ==
  /\ cfg \in GravConfigs
  /\ LimUnset
  /\ life = "ready"
  /\ pc = "idle"
  /\ phase = 0
  /\ stepNo = 0
  /\ trace = <<>>
  /\ stale = [a \in ArrayNames |-> {}]
  /\ etaDep = [a \in ArrayNames |-> {}]
  /\ wrote = [a \in ArrayNames |-> [q \in 1..NPhases |-> {}]]
  /\ etah = EtahInit
  /\ etahMiss = {}
  /\ calls = {}
  /\ argStale = FALSE
  /\ ptr = [a \in ScratchNames |-> 0]
  /\ heap = {}
  /\ nextBlk = 1
  /\ allocN = GridN
  /\ attempts = 0
  /\ failed = ""
  /\ errmsg = <<>>
  /\ touched = FALSE
  /\ dblFree = FALSE
  /\ seed \in Seeds
  /\ periodic \in BOOLEAN
  /\ dtodx \in {<<1, 2, 3>>, <<2, 1, 1>>}
  /\ LET b == CurlA(seed, dtodx)
       IN /\ B1i = IF cfg.MHD THEN b.B1 ELSE <<>>
          /\ B2i = IF cfg.MHD THEN b.B2 ELSE <<>>
          /\ B3i = IF cfg.MHD THEN b.B3 ELSE <<>>
          /\ U = [x \in LiveCells |->
                    [d  |-> Rnd(seed, 1, x), M1 |-> Rnd(seed, 2, x),
                     M2 |-> Rnd(seed, 3, x), M3 |-> Rnd(seed, 4, x),
                     E  |-> Rnd(seed, 5, x), s  |-> Rnd(seed, 6, x),
                     B1c |-> IF cfg.MHD
                             THEN Half(b.B1[x] + b.B1[x[1], x[2], x[3] + 1])
                             ELSE 0,
                     B2c |-> IF cfg.MHD
                             THEN Half(b.B2[x] + b.B2[x[1], x[2] + 1, x[3]])
                             ELSE 0,
                     B3c |-> IF cfg.MHD
                             THEN Half(b.B3[x] + b.B3[x[1] + 1, x[2], x[3]])
                             ELSE 0]]
  /\ U0 = U
  /\ x1Flux = <<>>
  /\ x2Flux = <<>>
  /\ x3Flux = <<>>
  /\ emf1 = <<>>
  /\ emf2 = <<>>
  /\ emf3 = <<>>
  /\ emf1_cc = <<>>
  /\ emf2_cc = <<>>
  /\ emf3_cc = <<>>
  /\ dhalf = <<>>
  /\ phalf = <<>>
  /\ remapEyiib = <<>>
  /\ remapEyoib = <<>>
  /\ HalfUnset

SpecGrav == InitGrav /\ [][NextNum]_vars

\* ============================================================== SpecCorner
\* The corner routines on uniform EMFs: Steps 1-9 of the first call have left
\* fluxes and cell-centred EMFs that stand for one EMF per axis, with mass
\* fluxes of either sign or zero; Step 10 applies the three routines
CornerConfigs ==
  {c \in NumConfigs : /\ c.MHD
                      /\ ~c.SHEARING_BOX
                      /\ ~c.StaticGravPot
                      /\ ~c.CoolingFunc}

CornerEmfs == {0 - 64, 32}
MassFluxes == {0 - 32, 0, 32}

\* the EMF along axis n that goes with the input e
UniformEmf(n, e) == IF n = 1 THEN e ELSE IF n = 2 THEN e + 32 ELSE 0 - e

InitCorner ==
  /\ cfg \in CornerConfigs
  /\ LimUnset
  /\ life = "ready"
  /\ pc = "run"
  /\ phase = 10
  /\ stepNo = 0
  /\ trace = <<>>
  /\ stale = [a \in ArrayNames |-> {}]
  /\ etaDep = [a \in ArrayNames |-> {}]
  /\ wrote = [a \in ArrayNames |-> [q \in 1..NPhases |-> {}]]
  /\ etah = EtahInit
  /\ etahMiss = {}
  /\ calls = {}
  /\ argStale = FALSE
  /\ ptr = [a \in ScratchNames |-> 0]
  /\ heap = {}
  /\ nextBlk = 1
  /\ allocN = GridN
  /\ attempts = 0
  /\ failed = ""
  /\ errmsg = <<>>
  /\ touched = FALSE
  /\ dblFree = FALSE
  /\ seed = 1
  /\ periodic = FALSE
  /\ dtodx = <<1, 2, 3>>
  /\ LET b == CurlA(seed, dtodx)
       IN /\ B1i = IF cfg.MHD THEN b.B1 ELSE <<>>
          /\ B2i = IF cfg.MHD THEN b.B2 ELSE <<>>
          /\ B3i = IF cfg.MHD THEN b.B3 ELSE <<>>
          /\ U = [x \in LiveCells |->
                    [d  |-> Rnd(seed, 1, x), M1 |-> Rnd(seed, 2, x),
                     M2 |-> Rnd(seed, 3, x), M3 |-> Rnd(seed, 4, x),
                     E  |-> Rnd(seed, 5, x), s  |-> Rnd(seed, 6, x),
                     B1c |-> IF cfg.MHD
                             THEN Half(b.B1[x] + b.B1[x[1], x[2], x[3] + 1])
                             ELSE 0,
                     B2c |-> IF cfg.MHD
                             THEN Half(b.B2[x] + b.B2[x[1], x[2] + 1, x[3]])
                             ELSE 0,
                     B3c |-> IF cfg.MHD
                             THEN Half(b.B3[x] + b.B3[x[1] + 1, x[2], x[3]])
                             ELSE 0]]
  /\ U0 = U
  /\ \E e \in CornerEmfs : \E s \in [1..6 -> MassFluxes] :
       /\ x1Flux = [x \in FluxBox |->
                      [Cons1D(seed, 10, x) EXCEPT
                         !.d  = s[1 + ((x[1] + x[2]) % 2)],
                         !.By = 0 - UniformEmf(3, e),
                         !.Bz = UniformEmf(2, e)]]
       /\ x2Flux = [x \in FluxBox |->
                      [Cons1D(seed, 20, x) EXCEPT
                         !.d  = s[3 + ((x[1] + x[3]) % 2)],
                         !.By = 0 - UniformEmf(1, e),
                         !.Bz = UniformEmf(3, e)]]
       /\ x3Flux = [x \in FluxBox |->
                      [Cons1D(seed, 30, x) EXCEPT
                         !.d  = s[5 + ((x[2] + x[3]) % 2)],
                         !.By = 0 - UniformEmf(2, e),
                         !.Bz = UniformEmf(1, e)]]
       /\ emf1_cc = [x \in FluxBox |-> UniformEmf(1, e)]
       /\ emf2_cc = [x \in FluxBox |-> UniformEmf(2, e)]
       /\ emf3_cc = [x \in FluxBox |-> UniformEmf(3, e)]
  /\ emf1 = <<>>
  /\ emf2 = <<>>
  /\ emf3 = <<>>
  /\ dhalf = [x \in LiveCells |-> Rnd(seed, 51, x)]
  /\ phalf = [x \in LiveCells |-> Rnd(seed, 52, x)]
  /\ remapEyiib = <<>>
  /\ remapEyoib = <<>>
  /\ HalfUnset

SpecCorner == InitCorner /\ [][NextNum]_vars

\* ================================================================= SpecMag
\* The magnetic field through the whole of integrate_3d_ctu on numbers, for
\* the MHD builds of SpecNum on a periodic domain: every array holds the
\* periodic image of its live part, so that a ghost-zone element is the live
\* element one period away.  From the interface states only the field
\* components (By, Bz) are kept; the other components enter the field only
\* through the Riemann solver.

\* the real quotient a/b for b > 0, rounded toward zero
Div(a, b) == IF a >= 0 THEN a \div b ELSE 0 - ((0 - a) \div b)

\* element (k,j,i) of an array, in the ghost zones too
P(a, k, j, i) == a[Wrap(<<k, j, i>>)]

\* (q1, q2, q3) = 0.5*(dtodx1, dtodx2, dtodx3)
hdtodx == <<Half(dtodx[1]), Half(dtodx[2]), Half(dtodx[3])>>

\* dt*db1, dt*db2, dt*db3 of cell (k,j,i): the difference of the two face
\* fields of the cell along each axis, over the cell spacing
db1(k, j, i) == dtodx[1] * (P(B1i, k, j, i + 1) - P(B1i, k, j, i))
db2(k, j, i) == dtodx[2] * (P(B2i, k, j + 1, i) - P(B2i, k, j, i))
db3(k, j, i) == dtodx[3] * (P(B3i, k + 1, j, i) - P(B3i, k, j, i))

\* (mutant) the limiter of the first sweeps without the clip at zero
LimitNoClip(a, b) == IF a >= 0 THEN (IF a < 0 - b THEN a ELSE 0 - b)
                     ELSE (IF a > 0 - b THEN a ELSE 0 - b)

\* Steps 1b, 2b, 3b: the limited difference l of the sweep-axis difference a
\* and a transverse difference b,
\*   if (a >= 0.0) { l = a < -b ? a : -b;  l = l > 0.0 ? l : 0.0; }
\*   else          { l = a > -b ? a : -b;  l = l < 0.0 ? l : 0.0; }
Limit(a, b) ==
  IF a >= 0
  THEN LET l == IF a < 0 - b THEN a ELSE 0 - b IN IF l > 0 THEN l ELSE 0
  ELSE LET l == IF a > 0 - b THEN a ELSE 0 - b IN IF l < 0 THEN l ELSE 0

\* (mutant) the transverse limiter without its second branch
MinModOneSided(dbd, dbt) ==
  IF dbd > 0 /\ dbt < 0 THEN (IF dbt > 0 - dbd THEN dbt ELSE 0 - dbd)
  ELSE 0

\* (mutant) the transverse limiter that takes the larger magnitude
MinModLarger(dbd, dbt) ==
  IF dbd > 0 /\ dbt < 0 THEN (IF dbt > 0 - dbd THEN 0 - dbd ELSE dbt)
  ELSE IF dbd < 0 /\ dbt > 0 THEN (IF dbt < 0 - dbd THEN 0 - dbd ELSE dbt)
  ELSE 0

\* Steps 5c, 6c, 7c: mdb_t from the sweep-axis difference dbd and the
\* transverse difference dbt,
\*   if (dbd > 0.0 && dbt < 0.0)      mdb = dbt > -dbd ? dbt : -dbd;
\*   else if (dbd < 0.0 && dbt > 0.0) mdb = dbt < -dbd ? dbt : -dbd;
\*   else mdb = 0.0;
MinMod(dbd, dbt) ==
  IF dbd > 0 /\ dbt < 0 THEN (IF dbt > 0 - dbd THEN dbt ELSE 0 - dbd)
  ELSE IF dbd < 0 /\ dbt > 0 THEN (IF dbt < 0 - dbd THEN dbt ELSE 0 - dbd)
  ELSE 0

\* hdt*MHD_src_By and hdt*MHD_src_Bz of cell (k,j,i) in the x1-sweep (Step 1b)
MHD_src_x1(k, j, i) ==
  LET u  == P(U, k, j, i)
      l3 == Limit(db1(k, j, i), db3(k, j, i))
      l2 == Limit(db1(k, j, i), db2(k, j, i))
  IN [By |-> Half(Div(u.M2 * l2, u.d)), Bz |-> Half(Div(u.M3 * l3, u.d))]

\* the same in the x2-sweep (Step 2b): By is B3, Bz is B1
MHD_src_x2(k, j, i) ==
  LET u  == P(U, k, j, i)
      l1 == Limit(db2(k, j, i), db1(k, j, i))
      l3 == Limit(db2(k, j, i), db3(k, j, i))
  IN [By |-> Half(Div(u.M3 * l3, u.d)), Bz |-> Half(Div(u.M1 * l1, u.d))]

\* the same in the x3-sweep (Step 3b): By is B1, Bz is B2
MHD_src_x3(k, j, i) ==
  LET u  == P(U, k, j, i)
      l1 == Limit(db3(k, j, i), db1(k, j, i))
      l2 == Limit(db3(k, j, i), db2(k, j, i))
  IN [By |-> Half(Div(u.M1 * l1, u.d)), Bz |-> Half(Div(u.M2 * l2, u.d))]

\* lr_states between Cons1D_to_Prim1D and Prim1D_to_Cons1D, momentum and field
\* components of one interface state: reconstructed from the cells w of its
\* stencil; the field is zero where the stencil carries no field, and the
\* values are a family no law connects otherwise
lr_states(sd, tag, x, w) ==
  LET nofield == \A n \in DOMAIN w : w[n] = <<0, 0, 0>>
  IN [d  |-> 1 + ((Rnd(sd, tag + 103, x) \div 32) % 2),
      Mx |-> Rnd(sd, tag + 100, x) \div 32,
      My |-> Rnd(sd, tag + 101, x) \div 32,
      Mz |-> Rnd(sd, tag + 102, x) \div 32,
      By |-> IF nofield THEN 0 ELSE Rnd(sd, tag, x) \div 32,
      Bz |-> IF nofield THEN 0 ELSE Rnd(sd, tag + 1, x) \div 32]

\* GET_FLUXES, the Riemann solver: the flux of the states Ul, Ur with the
\* longitudinal field Bxi; its By and Bz components are zero when its input
\* fields are zero, and it is a family no law connects otherwise
GET_FLUXES(sd, tag, x, Ul, Ur, Bxi) ==
  LET nofield == Bxi = 0 /\ Ul.By = 0 /\ Ul.Bz = 0 /\ Ur.By = 0 /\ Ur.Bz = 0
      c       == Cons1D(sd, tag, x)
      f       == [n \in DOMAIN c |-> c[n] \div 32]
  IN [f EXCEPT !.By = IF nofield THEN 0 ELSE @,
               !.Bz = IF nofield THEN 0 ELSE @]

\* the periodic image on box of an array given on the live cells
Image(f, box) == [x \in box |-> f[Wrap(x)]]

\* the interface state a with the field components of b added
AddB(a, b) == [a EXCEPT !.By = @ + b.By, !.Bz = @ + b.Bz]

\* the interface state a with the momentum components of m added
AddM(a, m) == [a EXCEPT !.Mx = @ + m.Mx, !.My = @ + m.My, !.Mz = @ + m.Mz]

\* the primitive state W[i] of the x1 pencil, from the cell u = U1d[i] with
\* Mx = M1, My = M2, Mz = M3
Cons1D_to_Prim1D(u) ==
  [d |-> u.d, Vx |-> Div(u.M1, u.d), Vy |-> Div(u.M2, u.d),
   Vz |-> Div(u.M3, u.d)]

\* (mutant) Step 1c with the Coriolis terms on the sweep-local components
\* of the x2 sweep
Coriolis_x1AsX2(c, w) ==
  IF c.SHEARING_BOX
  THEN [Vx |-> 0 - Quarter(dt * Omega * w.Vz), Vy |-> 0, Vz |-> dt * Omega * w.Vx]
  ELSE [Vx |-> 0, Vy |-> 0, Vz |-> 0]

\* Step 1c, shearing box (FARGO): what the velocities of Wl[i] and Wr[i] gain
\* from the primitive state w (W[i-1] for Wl, W[i] for Wr)
Coriolis_x1(c, w) ==
  IF c.SHEARING_BOX
  THEN [Vx |-> dt * Omega * w.Vy, Vy |-> 0 - Quarter(dt * Omega * w.Vx), Vz |-> 0]
  ELSE [Vx |-> 0, Vy |-> 0, Vz |-> 0]

\* Step 1d, Prim1D_to_Cons1D: the momenta of the interface state a of density
\* a.d whose velocities were raised by v
AddV(a, v) ==
  [a EXCEPT !.Mx = @ + a.d * v.Vx, !.My = @ + a.d * v.Vy, !.Mz = @ + a.d * v.Vz]

\* STEPS 1-3: first-sweep interface states and fluxes along x1, x2, x3
Step1to3Mag ==
  LET sd == (seed % NSeeds) + 1
      \* (By, Bz, Bxc) of cell (k,j,i) as Steps 1a, 2a and 3a load them
      Load_x1(k, j, i) == LET u == P(U, k, j, i) IN <<u.B2c, u.B3c, u.B1c>>
      Load_x2(k, j, i) == LET u == P(U, k, j, i) IN <<u.B3c, u.B1c, u.B2c>>
      Load_x3(k, j, i) == LET u == P(U, k, j, i) IN <<u.B1c, u.B2c, u.B3c>>
      l1 == [x \in LiveCells |-> LET k == x[1] j == x[2] i == x[3] IN
               AddV(AddB(lr_states(sd, 81, x, <<Load_x1(k, j, i-2), Load_x1(k, j, i-1),
                                                Load_x1(k, j, i)>>),
                         MHD_src_x1(k, j, i-1)),
                    Coriolis_x1(cfg, Cons1D_to_Prim1D(P(U, k, j, i-1))))]
      r1 == [x \in LiveCells |-> LET k == x[1] j == x[2] i == x[3] IN
               AddV(AddB(lr_states(sd, 83, x, <<Load_x1(k, j, i-1), Load_x1(k, j, i),
                                                Load_x1(k, j, i+1)>>),
                         MHD_src_x1(k, j, i)),
                    Coriolis_x1(cfg, Cons1D_to_Prim1D(P(U, k, j, i))))]
      l2 == [x \in LiveCells |-> LET k == x[1] j == x[2] i == x[3] IN
               AddB(lr_states(sd, 85, x, <<Load_x2(k, j-2, i), Load_x2(k, j-1, i),
                                           Load_x2(k, j, i)>>),
                    MHD_src_x2(k, j-1, i))]
      r2 == [x \in LiveCells |-> LET k == x[1] j == x[2] i == x[3] IN
               AddB(lr_states(sd, 87, x, <<Load_x2(k, j-1, i), Load_x2(k, j, i),
                                           Load_x2(k, j+1, i)>>),
                    MHD_src_x2(k, j, i))]
      l3 == [x \in LiveCells |-> LET k == x[1] j == x[2] i == x[3] IN
               AddB(lr_states(sd, 89, x, <<Load_x3(k-2, j, i), Load_x3(k-1, j, i),
                                           Load_x3(k, j, i)>>),
                    MHD_src_x3(k-1, j, i))]
      r3 == [x \in LiveCells |-> LET k == x[1] j == x[2] i == x[3] IN
               AddB(lr_states(sd, 91, x, <<Load_x3(k-1, j, i), Load_x3(k, j, i),
                                           Load_x3(k+1, j, i)>>),
                    MHD_src_x3(k, j, i))]
  IN /\ pc \in {"idle", "done"}
     /\ stepNo < MaxSteps
     /\ seed' = sd
     /\ pc' = "run"
     /\ phase' = 4
     /\ U0' = U
     /\ Ul_x1Face' = l1
     /\ Ur_x1Face' = r1
     /\ Ul_x2Face' = l2
     /\ Ur_x2Face' = r2
     /\ Ul_x3Face' = l3
     /\ Ur_x3Face' = r3
     /\ B1_x1Face' = Image(B1i, FaceBox)
     /\ B2_x2Face' = Image(B2i, FaceBox)
     /\ B3_x3Face' = Image(B3i, FaceBox)
     /\ x1Flux' = Image([x \in LiveCells |->
                    GET_FLUXES(sd, 110, x, l1[x], r1[x], B1i[x])], FluxBox)
     /\ x2Flux' = Image([x \in LiveCells |->
                    GET_FLUXES(sd, 120, x, l2[x], r2[x], B2i[x])], FluxBox)
     /\ x3Flux' = Image([x \in LiveCells |->
                    GET_FLUXES(sd, 130, x, l3[x], r3[x], B3i[x])], FluxBox)
     /\ UNCHANGED <<cfg, stepNo, U, B1i, B2i, B3i, emf1, emf2, emf3,
                    emf1_cc, emf2_cc, emf3_cc, dhalf, phalf,
                    remapEyiib, remapEyoib, dtodx, periodic>>
     /\ UNCHANGED frest
     /\ UNCHANGED lvars

\* (mutant) emf1_cc with the second product replaced by the momentum alone
emf_cc_U_NoField(u) ==
  [e1 |-> u.B2c * u.M3 - u.M2,
   e2 |-> Div(u.B3c * u.M1 - u.B1c * u.M3, u.d),
   e3 |-> Div(u.B1c * u.M2 - u.B2c * u.M1, u.d)]

\* Step 4a: the cell-centred EMFs of the state at the start of the step
emf_cc_U(u) ==
  [e1 |-> Div(u.B2c * u.M3 - u.B3c * u.M2, u.d),
   e2 |-> Div(u.B3c * u.M1 - u.B1c * u.M3, u.d),
   e3 |-> Div(u.B1c * u.M2 - u.B2c * u.M1, u.d)]

\* STEP 4: cell-centred EMFs, corner EMFs, CT update of the face fields for
\* half a time step
Step4Mag ==
  /\ pc = "run"
  /\ phase = 4
  /\ phase' = 5
  /\ UNCHANGED <<x1Flux, x2Flux, x3Flux>>
  /\ emf1_cc' = [x \in FluxBox |-> emf_cc_U(U[Wrap(x)]).e1]
  /\ emf2_cc' = [x \in FluxBox |-> emf_cc_U(U[Wrap(x)]).e2]
  /\ emf3_cc' = [x \in FluxBox |-> emf_cc_U(U[Wrap(x)]).e3]
  /\ emf1' = [x \in Edges1 |-> (emf1_corner(x[1], x[2], x[3]))']
  /\ emf2' = [x \in Edges2 |-> (emf2_corner(x[1], x[2], x[3]))']
  /\ emf3' = [x \in Edges3 |-> (emf3_corner(x[1], x[2], x[3]))']
  /\ B1_x1Face' = Image([x \in LiveCells |->
                     CT_B1(B1_x1Face, emf2', emf3', hdtodx, x[1], x[2], x[3])],
                   FaceBox)
  /\ B2_x2Face' = Image([x \in LiveCells |->
                     CT_B2(B2_x2Face, emf1', emf3', hdtodx, x[1], x[2], x[3])],
                   FaceBox)
  /\ B3_x3Face' = Image([x \in LiveCells |->
                     CT_B3(B3_x3Face, emf1', emf2', hdtodx, x[1], x[2], x[3])],
                   FaceBox)
  /\ UNCHANGED <<cfg, pc, stepNo, U, U0, B1i, B2i, B3i, dhalf, phalf,
                 remapEyiib, remapEyoib, dtodx, seed, periodic,
                 Ul_x1Face, Ur_x1Face, Ul_x2Face, Ur_x2Face, Ul_x3Face,
                 Ur_x3Face>>
  /\ UNCHANGED frest
  /\ UNCHANGED lvars

\* Steps 5a-5c for the x1-interface state taken from cell (k,j,i): the change
\* of By (B2) and Bz (B3) by the gradients of emf1 and by the limited MHD
\* source terms
Step5_dB(k, j, i) ==
  LET u    == P(U, k, j, i)
      mdb2 == MinMod(db1(k, j, i), db2(k, j, i))
      mdb3 == MinMod(db1(k, j, i), db3(k, j, i))
  IN [Bz |-> Half(hdtodx[2] *
               ((P(emf1, k, j+1, i) - P(emf1, k, j, i))
                + (P(emf1, k+1, j+1, i) - P(emf1, k+1, j, i))))
             + Half(Div(u.M3 * (0 - mdb2), u.d)),
      By |-> (0 - Half(hdtodx[3] *
               ((P(emf1, k+1, j, i) - P(emf1, k, j, i))
                + (P(emf1, k+1, j+1, i) - P(emf1, k, j+1, i)))))
             + Half(Div(u.M2 * (0 - mdb3), u.d))]

\* Steps 6a-6c for the x2-interface state taken from cell (k,j,i): By is B3,
\* Bz is B1
Step6_dB(k, j, i) ==
  LET u    == P(U, k, j, i)
      mdb1 == MinMod(db2(k, j, i), db1(k, j, i))
      mdb3 == MinMod(db2(k, j, i), db3(k, j, i))
  IN [By |-> (0 - Half(hdtodx[1] *
               ((P(emf2, k, j, i+1) - P(emf2, k, j, i))
                + (P(emf2, k+1, j, i+1) - P(emf2, k+1, j, i)))))
             + Half(Div(u.M3 * (0 - mdb1), u.d)),
      Bz |-> Half(hdtodx[3] *
               ((P(emf2, k+1, j, i) - P(emf2, k, j, i))
                + (P(emf2, k+1, j, i+1) - P(emf2, k, j, i+1))))
             + Half(Div(u.M1 * (0 - mdb3), u.d))]

\* Steps 7a-7c for the x3-interface state taken from cell (k,j,i): By is B1,
\* Bz is B2
Step7_dB(k, j, i) ==
  LET u    == P(U, k, j, i)
      mdb1 == MinMod(db3(k, j, i), db1(k, j, i))
      mdb2 == MinMod(db3(k, j, i), db2(k, j, i))
  IN [Bz |-> Half(hdtodx[1] *
               ((P(emf3, k, j, i+1) - P(emf3, k, j, i))
                + (P(emf3, k, j+1, i+1) - P(emf3, k, j+1, i))))
             + Half(Div(u.M2 * (0 - mdb1), u.d)),
      By |-> (0 - Half(hdtodx[2] *
               ((P(emf3, k, j+1, i) - P(emf3, k, j, i))
                + (P(emf3, k, j+1, i+1) - P(emf3, k, j, i+1)))))
             + Half(Div(u.M1 * (0 - mdb2), u.d))]

\* (mutant) Step 7 applying the flux components in the order of the load,
\* without the permutation
Step7_dMLoadOrder(k, j, i) ==
  LET u == P(U, k, j, i)
  IN [Mx |-> 0 - Half(D1("Mx", k, j, i)) - Half(D2("Mx", k, j, i))
               + Half(u.B3c * db3(k, j, i)),
      My |-> 0 - Half(D1("My", k, j, i)) - Half(D2("My", k, j, i))
               + Half(u.B1c * db3(k, j, i))
               + (IF cfg.SHEARING_BOX THEN dt * Omega * u.M2 ELSE 0),
      Mz |-> 0 - Half(D1("Mz", k, j, i)) - Half(D2("Mz", k, j, i))
               + Half(u.B2c * db3(k, j, i))
               - (IF cfg.SHEARING_BOX THEN Quarter(dt * Omega * u.M1) ELSE 0)]

\* Steps 5a-5c for the x1-interface state taken from cell (k,j,i): the change
\* of Mx (M1), My (M2), Mz (M3) by the gradients of the x2- and x3-fluxes and
\* by the MHD source terms (no potential in these builds: Step 5d is empty)
Step5_dM(k, j, i) ==
  LET u == P(U, k, j, i)
  IN [Mx |-> 0 - Half(D2("Mz", k, j, i)) - Half(D3("My", k, j, i))
               + Half(u.B1c * db1(k, j, i)),
      My |-> 0 - Half(D2("Mx", k, j, i)) - Half(D3("Mz", k, j, i))
               + Half(u.B2c * db1(k, j, i)),
      Mz |-> 0 - Half(D2("My", k, j, i)) - Half(D3("Mx", k, j, i))
               + Half(u.B3c * db1(k, j, i))]

\* Steps 6a-6d for the x2-interface state: Mx is M2, My is M3, Mz is M1; with
\* SHEARING_BOX (FARGO) the Coriolis terms of Step 6d
Step6_dM(k, j, i) ==
  LET u == P(U, k, j, i)
  IN [Mx |-> 0 - Half(D1("My", k, j, i)) - Half(D3("Mz", k, j, i))
               + Half(u.B2c * db2(k, j, i))
               - (IF cfg.SHEARING_BOX THEN Quarter(dt * Omega * u.M1) ELSE 0),
      My |-> 0 - Half(D1("Mz", k, j, i)) - Half(D3("Mx", k, j, i))
               + Half(u.B3c * db2(k, j, i)),
      Mz |-> 0 - Half(D1("Mx", k, j, i)) - Half(D3("My", k, j, i))
               + Half(u.B1c * db2(k, j, i))
               + (IF cfg.SHEARING_BOX THEN dt * Omega * u.M2 ELSE 0)]

\* Steps 7a-7d for the x3-interface state: Mx is M3, My is M1, Mz is M2
Step7_dM(k, j, i) ==
  LET u == P(U, k, j, i)
  IN [Mx |-> 0 - Half(D1("Mz", k, j, i)) - Half(D2("My", k, j, i))
               + Half(u.B3c * db3(k, j, i)),
      My |-> 0 - Half(D1("Mx", k, j, i)) - Half(D2("Mz", k, j, i))
               + Half(u.B1c * db3(k, j, i))
               + (IF cfg.SHEARING_BOX THEN dt * Omega * u.M2 ELSE 0),
      Mz |-> 0 - Half(D1("My", k, j, i)) - Half(D2("Mx", k, j, i))
               + Half(u.B2c * db3(k, j, i))
               - (IF cfg.SHEARING_BOX THEN Quarter(dt * Omega * u.M1) ELSE 0)]

\* STEPS 5-7: the interface states corrected with the transverse gradients;
\* the left state of a face belongs to the cell below it, the right state to
\* the cell of the same index
Step5to7Mag ==
  /\ pc = "run"
  /\ phase = 5
  /\ phase' = 8
  /\ Ul_x1Face' = [x \in LiveCells |->
                     AddM(AddB(Ul_x1Face[x], Step5_dB(x[1], x[2], x[3] - 1)),
                          Step5_dM(x[1], x[2], x[3] - 1))]
  /\ Ur_x1Face' = [x \in LiveCells |->
                     AddM(AddB(Ur_x1Face[x], Step5_dB(x[1], x[2], x[3])),
                          Step5_dM(x[1], x[2], x[3]))]
  /\ Ul_x2Face' = [x \in LiveCells |->
                     AddM(AddB(Ul_x2Face[x], Step6_dB(x[1], x[2] - 1, x[3])),
                          Step6_dM(x[1], x[2] - 1, x[3]))]
  /\ Ur_x2Face' = [x \in LiveCells |->
                     AddM(AddB(Ur_x2Face[x], Step6_dB(x[1], x[2], x[3])),
                          Step6_dM(x[1], x[2], x[3]))]
  /\ Ul_x3Face' = [x \in LiveCells |->
                     AddM(AddB(Ul_x3Face[x], Step7_dB(x[1] - 1, x[2], x[3])),
                          Step7_dM(x[1] - 1, x[2], x[3]))]
  /\ Ur_x3Face' = [x \in LiveCells |->
                     AddM(AddB(Ur_x3Face[x], Step7_dB(x[1], x[2], x[3])),
                          Step7_dM(x[1], x[2], x[3]))]
  /\ UNCHANGED <<cfg, pc, stepNo, U, U0, B1i, B2i, B3i, x1Flux, x2Flux,
                 x3Flux, emf1, emf2, emf3, emf1_cc, emf2_cc, emf3_cc, dhalf,
                 phalf, remapEyiib, remapEyoib, dtodx, seed, periodic,
                 B1_x1Face, B2_x2Face, B3_x3Face>>
  /\ UNCHANGED frest
  /\ UNCHANGED lvars

\* Gamma_1 = Gamma - 1 of the equation of state
Gamma_1 == 1

\* Step 8b: the momenta and the energy at the half time step, with the
\* sources of the static potential and (FARGO) the Coriolis terms
Step8b_half(u, c, k, j, i) ==
  LET g(a, b) == IF c.StaticGravPot THEN (a - b) * u.d ELSE 0
      M1h == u.M1 - Half(D1("Mx", k, j, i)) - Half(D2("Mz", k, j, i))
                  - Half(D3("My", k, j, i))
                  - hdtodx[1] * g(StaticGravPot(2*i + 1, 2*j, 2*k),
                                  StaticGravPot(2*i - 1, 2*j, 2*k))
      M2h == u.M2 - Half(D1("My", k, j, i)) - Half(D2("Mx", k, j, i))
                  - Half(D3("Mz", k, j, i))
                  - hdtodx[2] * g(StaticGravPot(2*i, 2*j + 1, 2*k),
                                  StaticGravPot(2*i, 2*j - 1, 2*k))
      M3h == u.M3 - Half(D1("Mz", k, j, i)) - Half(D2("My", k, j, i))
                  - Half(D3("Mx", k, j, i))
                  - hdtodx[3] * g(StaticGravPot(2*i, 2*j, 2*k + 1),
                                  StaticGravPot(2*i, 2*j, 2*k - 1))
  IN [M1h |-> IF c.SHEARING_BOX THEN M1h + dt * Omega * u.M2 ELSE M1h,
      M2h |-> IF c.SHEARING_BOX THEN M2h - Quarter(dt * Omega * u.M1) ELSE M2h,
      M3h |-> M3h,
      Eh  |-> u.E - Half(D1("E", k, j, i)) - Half(D2("E", k, j, i))
                  - Half(D3("E", k, j, i))]

\* Step 8b: the cell-centred EMFs at the half time step
emf_cc_half(h, b, dh) ==
  [e1 |-> Div(b.B2ch * h.M3h - b.B3ch * h.M2h, dh),
   e2 |-> Div(b.B3ch * h.M1h - b.B1ch * h.M3h, dh),
   e3 |-> Div(b.B1ch * h.M2h - b.B2ch * h.M1h, dh)]

\* STEP 8: cell-centred values at the half time step
Step8Mag ==
  LET \* Step 8a: the density at the half time step
      dh(x) == LET k == x[1] j == x[2] i == x[3] IN
                 U[x].d - Half(D1("d", k, j, i)) - Half(D2("d", k, j, i))
                        - Half(D3("d", k, j, i))
      h(x)  == Step8b_half(U[x], cfg, x[1], x[2], x[3])
      \* the cell-centred field at the half time step
      b(x)  == LET k == x[1] j == x[2] i == x[3] IN
                 [B1ch |-> Half(B1_x1Face[k, j, i] + B1_x1Face[k, j, i + 1]),
                  B2ch |-> Half(B2_x2Face[k, j, i] + B2_x2Face[k, j + 1, i]),
                  B3ch |-> Half(B3_x3Face[k, j, i] + B3_x3Face[k + 1, j, i])]
      \* the pressure at the half time step
      ph(x) == Gamma_1 *
                 (h(x).Eh
                  - Half(Div(h(x).M1h * h(x).M1h + h(x).M2h * h(x).M2h
                             + h(x).M3h * h(x).M3h, dh(x)))
                  - Half(b(x).B1ch * b(x).B1ch + b(x).B2ch * b(x).B2ch
                         + b(x).B3ch * b(x).B3ch))
      e     == [x \in LiveCells |-> emf_cc_half(h(x), b(x), dh(x))]
  IN /\ pc = "run"
     /\ phase = 8
     /\ phase' = 9
     /\ dhalf' = [x \in LiveCells |-> dh(x)]
     /\ phalf' = [x \in LiveCells |-> ph(x)]
     /\ emf1_cc' = [x \in FluxBox |-> e[Wrap(x)].e1]
     /\ emf2_cc' = [x \in FluxBox |-> e[Wrap(x)].e2]
     /\ emf3_cc' = [x \in FluxBox |-> e[Wrap(x)].e3]
     /\ UNCHANGED <<cfg, pc, stepNo, U, U0, B1i, B2i, B3i, x1Flux, x2Flux,
                    x3Flux, emf1, emf2, emf3, remapEyiib, remapEyoib, dtodx,
                    seed, periodic>>
     /\ UNCHANGED hvars
     /\ UNCHANGED frest
     /\ UNCHANGED lvars

\* STEP 9: the second-sweep fluxes from the corrected interface states and
\* the half-step face fields
Step9Mag ==
  /\ pc = "run"
  /\ phase = 9
  /\ phase' = 10
  /\ x1Flux' = Image([x \in LiveCells |->
                 GET_FLUXES(seed, 10, x, Ul_x1Face[x], Ur_x1Face[x],
                            B1_x1Face[x])], FluxBox)
  /\ x2Flux' = Image([x \in LiveCells |->
                 GET_FLUXES(seed, 20, x, Ul_x2Face[x], Ur_x2Face[x],
                            B2_x2Face[x])], FluxBox)
  /\ x3Flux' = Image([x \in LiveCells |->
                 GET_FLUXES(seed, 30, x, Ul_x3Face[x], Ur_x3Face[x],
                            B3_x3Face[x])], FluxBox)
  /\ UNCHANGED <<cfg, pc, stepNo, U, U0, B1i, B2i, B3i, emf1, emf2, emf3,
                 emf1_cc, emf2_cc, emf3_cc, dhalf, phalf, remapEyiib,
                 remapEyoib, dtodx, seed, periodic>>
  /\ UNCHANGED hvars
  /\ UNCHANGED frest
  /\ UNCHANGED lvars

\* the builds of SpecMag: MHD without a static potential, the shearing box
\* with both x1-faces of the domain on this grid
MagConfigs ==
  {c \in NumConfigs : /\ c.MHD
                      /\ ~c.StaticGravPot
                      /\ c.ix1 = c.SHEARING_BOX
                      /\ c.ox1 = c.ix1}

\* the grid at the start: a periodic divergence-free field of amplitude
\* 0 (no field) or 1, positive densities
InitMag ==
  /\ cfg \in MagConfigs
  /\ LimUnset
  /\ life = "ready"
  /\ pc = "idle"
  /\ phase = 0
  /\ stepNo = 0
  /\ trace = <<>>
  /\ stale = [a \in ArrayNames |-> {}]
  /\ etaDep = [a \in ArrayNames |-> {}]
  /\ wrote = [a \in ArrayNames |-> [q \in 1..NPhases |-> {}]]
  /\ etah = EtahInit
  /\ etahMiss = {}
  /\ calls = {}
  /\ argStale = FALSE
  /\ ptr = [a \in ScratchNames |-> 0]
  /\ heap = {}
  /\ nextBlk = 1
  /\ allocN = GridN
  /\ attempts = 0
  /\ failed = ""
  /\ errmsg = <<>>
  /\ touched = FALSE
  /\ dblFree = FALSE
  /\ seed \in Seeds
  /\ periodic = TRUE
  /\ dtodx \in {<<2, 4, 6>>, <<4, 2, 2>>}
  /\ \E amp \in {0, 1} :
       LET b  == CurlA(seed, dtodx)
           B1 == [x \in FaceBox |-> amp * (b.B1[x] \div 32)]
           B2 == [x \in FaceBox |-> amp * (b.B2[x] \div 32)]
           B3 == [x \in FaceBox |-> amp * (b.B3[x] \div 32)]
       IN /\ B1i = B1
          /\ B2i = B2
          /\ B3i = B3
          /\ U = [x \in LiveCells |->
                    [d  |-> 1024 + Rnd(seed, 1, x), M1 |-> Rnd(seed, 2, x),
                     M2 |-> Rnd(seed, 3, x), M3 |-> Rnd(seed, 4, x),
                     E  |-> Rnd(seed, 5, x), s  |-> Rnd(seed, 6, x),
                     B1c |-> Half(B1[x] + B1[x[1], x[2], x[3] + 1]),
                     B2c |-> Half(B2[x] + B2[x[1], x[2] + 1, x[3]]),
                     B3c |-> Half(B3[x] + B3[x[1] + 1, x[2], x[3]])]]
  /\ U0 = U
  /\ x1Flux = <<>>
  /\ x2Flux = <<>>
  /\ x3Flux = <<>>
  /\ emf1 = <<>>
  /\ emf2 = <<>>
  /\ emf3 = <<>>
  /\ emf1_cc = <<>>
  /\ emf2_cc = <<>>
  /\ emf3_cc = <<>>
  /\ dhalf = <<>>
  /\ phalf = <<>>
  /\ remapEyiib = <<>>
  /\ remapEyoib = <<>>
  /\ HalfUnset

NextMag ==
  \/ Step1to3Mag
  \/ Step4Mag
  \/ Step5to7Mag
  \/ Step8Mag
  \/ Step9Mag
  \/ Step10Num
  \/ Step11Num
  \/ Step12Num

SpecMag == InitMag /\ [][NextMag]_vars

\* ================================================================ SpecShear
\* the shearing-box build (FARGO) with densities 1 and 2, so that the
\* velocities M/d of the x1 pencil are whole numbers and the Coriolis terms
\* of Steps 1c, 6d and 7d are exact
InitShear ==
  /\ cfg \in {c \in MagConfigs : c.SHEARING_BOX}
  /\ LimUnset
  /\ life = "ready"
  /\ pc = "idle"
  /\ phase = 0
  /\ stepNo = 0
  /\ trace = <<>>
  /\ stale = [a \in ArrayNames |-> {}]
  /\ etaDep = [a \in ArrayNames |-> {}]
  /\ wrote = [a \in ArrayNames |-> [q \in 1..NPhases |-> {}]]
  /\ etah = EtahInit
  /\ etahMiss = {}
  /\ calls = {}
  /\ argStale = FALSE
  /\ ptr = [a \in ScratchNames |-> 0]
  /\ heap = {}
  /\ nextBlk = 1
  /\ allocN = GridN
  /\ attempts = 0
  /\ failed = ""
  /\ errmsg = <<>>
  /\ touched = FALSE
  /\ dblFree = FALSE
  /\ seed \in Seeds
  /\ periodic = TRUE
  /\ dtodx \in {<<2, 4, 6>>, <<4, 2, 2>>}
  /\ \E amp \in {0, 1} :
       LET b  == CurlA(seed, dtodx)
           B1 == [x \in FaceBox |-> amp * (b.B1[x] \div 32)]
           B2 == [x \in FaceBox |-> amp * (b.B2[x] \div 32)]
           B3 == [x \in FaceBox |-> amp * (b.B3[x] \div 32)]
       IN /\ B1i = B1
          /\ B2i = B2
          /\ B3i = B3
          /\ U = [x \in LiveCells |->
                    [d  |-> 1 + ((seed + x[1] + x[2] + x[3]) % 2), M1 |-> Rnd(seed, 2, x),
                     M2 |-> Rnd(seed, 3, x), M3 |-> Rnd(seed, 4, x),
                     E  |-> Rnd(seed, 5, x), s  |-> Rnd(seed, 6, x),
                     B1c |-> Half(B1[x] + B1[x[1], x[2], x[3] + 1]),
                     B2c |-> Half(B2[x] + B2[x[1], x[2] + 1, x[3]]),
                     B3c |-> Half(B3[x] + B3[x[1] + 1, x[2], x[3]])]]
  /\ U0 = U
  /\ x1Flux = <<>>
  /\ x2Flux = <<>>
  /\ x3Flux = <<>>
  /\ emf1 = <<>>
  /\ emf2 = <<>>
  /\ emf3 = <<>>
  /\ emf1_cc = <<>>
  /\ emf2_cc = <<>>
  /\ emf3_cc = <<>>
  /\ dhalf = <<>>
  /\ phalf = <<>>
  /\ remapEyiib = <<>>
  /\ remapEyoib = <<>>
  /\ HalfUnset

\* the step of these builds: without a static potential it ends in Step 11a,
\* which calls StaticGravPot
NextShear ==
  \/ Step1to3Mag
  \/ Step4Mag
  \/ Step5to7Mag
  \/ Step8Mag
  \/ Step9Mag
  \/ Step10Num
  \/ Step11Num

SpecShear == InitShear /\ [][NextShear]_vars

\* ================================================================= SpecProb
\* The AcousWave problem generator (src/prob/AcousWave.c, problem), called
\* once on a grid whose storage holds one value everywhere.  Densities,
\* momenta and energies are in units of 1/320, cosines and sines in units of
\* 1/32, angles in eighths of a turn, sintheta in units of 0.4472136, and
\* wavenumber in units of PI.
One == 320
d0 == 1
P0 == 1
flag == 1
factor == 300
four_pi_G_AcousWave == 300
sintheta == 1
costheta == 2 * sintheta
wavenumber == 2

\* pGrid->time and the adiabatic index Gamma, the inputs of the generator
Times == 0..3
Gammas == {2, 101}
\* what the storage of the grid holds on entry
Fills == {0, 64}

\* the grid descriptor: Nx[n] cells along x_n (Nx[0], Nx[1], Nx[2] of the
\* source), nghost ghost cells on both sides of an axis with more than one
\* cell, none on an axis with a single cell
GridS(n1, n2, n3) ==
  [Nx |-> <<n1, n2, n3>>,
   is |-> nghost, ie |-> nghost + n1 - 1,
   js |-> IF n2 > 1 THEN nghost ELSE 0,
   je |-> IF n2 > 1 THEN nghost + n2 - 1 ELSE 0,
   ks |-> IF n3 > 1 THEN nghost ELSE 0,
   ke |-> IF n3 > 1 THEN nghost + n3 - 1 ELSE 0]

Grids == {GridS(NX1, n2, n3) : n2 \in {1, NX2}, n3 \in {1, NX3}}

\* the cells the arrays of grid g hold
GridCells(g) ==
  Cells3(0..(g.ke + g.ks), 0..(g.je + g.js), 0..(g.ie + g.is))

\* the grid the arrays U, B1i, B2i, B3i belong to
pGrid == CHOOSE g \in Grids : GridCells(g) = DOMAIN U

\* cc_pos: the centre of cell (k,j,i) in half cell widths from the lower
\* corner of the live region
cc_pos(g, i, j, k) ==
  [x1 |-> 2 * (i - g.is) + 1, x2 |-> 2 * (j - g.js) + 1,
   x3 |-> 2 * (k - g.ks) + 1]

cos(theta) == <<32, 22, 0, 0 - 22, 0 - 32, 0 - 22, 0, 22>>[(theta % 8) + 1]
sin(theta) == cos(theta + 6)
sqrt(n) == CHOOSE r \in 0..n : r * r <= n /\ (r + 1) * (r + 1) > n

\* (mutant) the index bounds with the x1 ghost zones included
ProblemBoxGhostX1(g) ==
  Cells3((IF g.Nx[3] > 1 THEN g.ks - nghost ELSE g.ks)..
         (IF g.Nx[3] > 1 THEN g.ke + nghost ELSE g.ke),
         (IF g.Nx[2] > 1 THEN g.js - nghost ELSE g.js)..
         (IF g.Nx[2] > 1 THEN g.je + nghost ELSE g.je),
         (g.is - nghost)..(g.ie + nghost))

\* the index bounds il..iu, jl..ju, kl..ku of the initialisation loop
ProblemBox(g) ==
  LET iu == g.ie
      il == g.is
      ju == IF g.Nx[2] > 1 THEN g.je + nghost ELSE g.je
      jl == IF g.Nx[2] > 1 THEN g.js - nghost ELSE g.js
      ku == IF g.Nx[3] > 1 THEN g.ke + nghost ELSE g.ke
      kl == IF g.Nx[3] > 1 THEN g.ks - nghost ELSE g.ks
  IN Cells3(kl..ku, jl..ju, il..iu)

\* the conserved variables the loop body assigns to cell x of grid g at time
\* t with adiabatic index Gamma
AcousWaveCell(g, x, t, Gamma) ==
  LET disc  == Div(Gamma * P0 * wavenumber * wavenumber, d0)
                 - four_pi_G_AcousWave * d0
      omega == IF disc > 0 THEN sqrt(disc) ELSE sqrt(0 - disc)
      c     == cc_pos(g, x[3], x[2], x[1])
      theta == wavenumber * (costheta * c.x1 + sintheta * c.x2) - omega * t
  IN [d  |-> One + Div(flag * factor * cos(theta), 100),
      M1 |-> IF disc > 0
             THEN Div(costheta * flag * factor * omega * cos(theta),
                      100 * wavenumber)
             ELSE Div((0 - costheta) * flag * factor * omega * sin(theta),
                      100 * wavenumber),
      M2 |-> IF disc > 0
             THEN Div(sintheta * flag * factor * omega * cos(theta),
                      100 * wavenumber)
             ELSE Div((0 - sintheta) * flag * factor * omega * sin(theta),
                      100 * wavenumber),
      M3 |-> 0,
      E  |-> Div(One, Gamma - 1)
             + Div(flag * factor * Gamma * P0 * cos(theta),
                   100 * d0 * (Gamma - 1))]

problem ==
  \E t \in Times : \E Gamma \in Gammas :
    LET g   == pGrid
        box == ProblemBox(g)
        w(x) == AcousWaveCell(g, x, t, Gamma)
    IN /\ pc = "idle"
       /\ pc' = "done"
       /\ U' = [x \in DOMAIN U |->
                  IF x \notin box THEN U[x]
                  ELSE LET u == [U[x] EXCEPT !.d = w(x).d, !.M1 = w(x).M1,
                                             !.M2 = w(x).M2, !.M3 = w(x).M3,
                                             !.E = w(x).E]
                       IN IF cfg.MHD
                          THEN [u EXCEPT !.B1c = 0, !.B2c = 0, !.B3c = 0]
                          ELSE u]
       /\ B1i' = [x \in DOMAIN B1i |->
                    IF cfg.MHD /\ x \in box THEN 0 ELSE B1i[x]]
       /\ B2i' = [x \in DOMAIN B2i |->
                    IF cfg.MHD /\ x \in box THEN 0 ELSE B2i[x]]
       /\ B3i' = [x \in DOMAIN B3i |->
                    IF cfg.MHD /\ x \in box THEN 0 ELSE B3i[x]]
       /\ UNCHANGED <<cfg, life, phase, stepNo, trace, stale, etaDep, wrote,
                      etah, etahMiss, calls, argStale, ptr, heap, nextBlk,
                      allocN, attempts, failed, errmsg, touched, dblFree>>
       /\ UNCHANGED <<x1Flux, x2Flux, x3Flux, emf1, emf2, emf3, emf1_cc,
                      emf2_cc, emf3_cc, dhalf, phalf, remapEyiib, remapEyoib,
                      dtodx, U0, seed, periodic>>
       /\ UNCHANGED hvars
       /\ UNCHANGED lvars

InitProb ==
  /\ cfg \in {c \in NumConfigs : /\ ~c.StaticGravPot /\ ~c.CoolingFunc
                                 /\ ~c.SHEARING_BOX /\ ~c.ix1 /\ ~c.ox1}
  /\ LimUnset
  /\ life = "new"
  /\ pc = "idle"
  /\ phase = 0
  /\ stepNo = 0
  /\ trace = <<>>
  /\ stale = [a \in ArrayNames |-> {}]
  /\ etaDep = [a \in ArrayNames |-> {}]
  /\ wrote = [a \in ArrayNames |-> [q \in 1..NPhases |-> {}]]
  /\ etah = EtahInit
  /\ etahMiss = {}
  /\ calls = {}
  /\ argStale = FALSE
  /\ ptr = [a \in ScratchNames |-> 0]
  /\ heap = {}
  /\ nextBlk = 1
  /\ allocN = <<0, 0, 0>>
  /\ attempts = 0
  /\ failed = ""
  /\ errmsg = <<>>
  /\ touched = FALSE
  /\ dblFree = FALSE
  /\ \E g \in Grids : \E f \in Fills :
       /\ U = [x \in GridCells(g) |->
                 [d |-> f, M1 |-> f, M2 |-> f, M3 |-> f, E |-> f, s |-> f,
                  B1c |-> f, B2c |-> f, B3c |-> f]]
       /\ B1i = [x \in GridCells(g) |-> f]
       /\ B2i = [x \in GridCells(g) |-> f]
       /\ B3i = [x \in GridCells(g) |-> f]
  /\ x1Flux = <<>>
  /\ x2Flux = <<>>
  /\ x3Flux = <<>>
  /\ emf1 = <<>>
  /\ emf2 = <<>>
  /\ emf3 = <<>>
  /\ emf1_cc = <<>>
  /\ emf2_cc = <<>>
  /\ emf3_cc = <<>>
  /\ dhalf = <<>>
  /\ phalf = <<>>
  /\ remapEyiib = <<>>
  /\ remapEyoib = <<>>
  /\ dtodx = <<>>
  /\ U0 = <<>>
  /\ seed = <<>>
  /\ periodic = <<>>
  /\ HalfUnset

SpecProb == InitProb /\ [][problem]_vars

\* =============================================================== SpecHalfB
\* The half-step face fields through Steps 1-4 on a grid with its ghost
\* zones, not periodic: the copies of Steps 1a, 2a and 3a, the first-sweep
\* fluxes as values no law connects, and Step 4 with the loop ranges of the
\* source.  The grid field is the difference curl of a vector potential, with
\* or without a part that has divergence.
Box2 == Cells3(KR(-2, 2), JR(-2, 2), IR(-2, 2))

Monopoles == {0, 32, 64}

\* component n of the difference curl of a vector potential at face x
CurlAt(sd, q, n, x) ==
  LET A(c, k, j, i) == Rnd(sd, 70 + c, <<k, j, i>>)
  IN IF n = 1
     THEN q[2] * q[3] *
            ((A(3, x[1], x[2] + 1, x[3]) - A(3, x[1], x[2], x[3]))
             - (A(2, x[1] + 1, x[2], x[3]) - A(2, x[1], x[2], x[3])))
     ELSE IF n = 2
     THEN q[1] * q[3] *
            ((A(1, x[1] + 1, x[2], x[3]) - A(1, x[1], x[2], x[3]))
             - (A(3, x[1], x[2], x[3] + 1) - A(3, x[1], x[2], x[3])))
     ELSE q[1] * q[2] *
            ((A(2, x[1], x[2], x[3] + 1) - A(2, x[1], x[2], x[3]))
             - (A(1, x[1], x[2] + 1, x[3]) - A(1, x[1], x[2], x[3])))

\* (mutant) Step 4b without the loop for the x1-faces at ie+2
Step4bFaces1NoExtra == Cells3(KR(-1, 1), JR(-1, 1), IR(-1, 1))

\* the faces Step 4b advances: those of the main loop and the extra layer at
\* ie+2 (je+2, ke+2)
Step4bFaces1 ==
  Cells3(KR(-1, 1), JR(-1, 1), IR(-1, 1)) \cup Cells3(KR(-1, 1), JR(-1, 1), {ie + 2})
Step4bFaces2 ==
  Cells3(KR(-1, 1), JR(-1, 1), IR(-1, 1)) \cup Cells3(KR(-1, 1), {je + 2}, IR(-1, 1))
Step4bFaces3 ==
  Cells3(KR(-1, 1), JR(-1, 1), IR(-1, 1)) \cup Cells3({ke + 2}, JR(-1, 1), IR(-1, 1))

\* Steps 1-3 as far as the field goes: the face fields are copied from the
\* grid (Steps 1a, 2a, 3a) and the first-sweep fluxes are stored
Steps1to3HalfB ==
  /\ pc = "idle"
  /\ phase = 0
  /\ pc' = "run"
  /\ phase' = 4
  /\ B1_x1Face' = [x \in Cells3(KR(-2, 2), JR(-2, 2), IR(0 - nghost, nghost)) |->
                     B1i[x]]
  /\ B2_x2Face' = [x \in Cells3(KR(-2, 2), JR(0 - nghost, nghost), IR(-2, 2)) |->
                     B2i[x]]
  /\ B3_x3Face' = [x \in Cells3(KR(0 - nghost, nghost), JR(-2, 2), IR(-2, 2)) |->
                     B3i[x]]
  /\ x1Flux' = [x \in Cells3(KR(-2, 2), JR(-2, 2), FaceRange(is, ie)) |->
                  Cons1D(seed, 10, x)]
  /\ x2Flux' = [x \in Cells3(KR(-2, 2), FaceRange(js, je), IR(-2, 2)) |->
                  Cons1D(seed, 20, x)]
  /\ x3Flux' = [x \in Cells3(FaceRange(ks, ke), JR(-2, 2), IR(-2, 2)) |->
                  Cons1D(seed, 30, x)]
  /\ UNCHANGED <<cfg, stepNo, U, U0, B1i, B2i, B3i, emf1, emf2, emf3,
                 emf1_cc, emf2_cc, emf3_cc, dhalf, phalf,
                 remapEyiib, remapEyoib, dtodx, seed, periodic,
                 Ul_x1Face, Ur_x1Face, Ul_x2Face, Ur_x2Face, Ul_x3Face,
                 Ur_x3Face>>
  /\ UNCHANGED frest
  /\ UNCHANGED lvars

\* STEP 4 with the loop ranges of the source
Step4HalfB ==
  /\ pc = "run"
  /\ phase = 4
  /\ phase' = 5
  /\ UNCHANGED <<x1Flux, x2Flux, x3Flux>>
  /\ emf1_cc' = [x \in Box2 |-> emf_cc_U(U[x]).e1]
  /\ emf2_cc' = [x \in Box2 |-> emf_cc_U(U[x]).e2]
  /\ emf3_cc' = [x \in Box2 |-> emf_cc_U(U[x]).e3]
  /\ emf1' = [x \in Cells3(KR(-1, 2), JR(-1, 2), IR(-2, 2)) |->
                (emf1_corner(x[1], x[2], x[3]))']
  /\ emf2' = [x \in Cells3(KR(-1, 2), JR(-2, 2), IR(-1, 2)) |->
                (emf2_corner(x[1], x[2], x[3]))']
  /\ emf3' = [x \in Cells3(KR(-2, 2), JR(-1, 2), IR(-1, 2)) |->
                (emf3_corner(x[1], x[2], x[3]))']
  /\ B1_x1Face' = [x \in DOMAIN B1_x1Face |->
                     IF x \in Step4bFaces1
                     THEN CT_B1(B1_x1Face, emf2', emf3', hdtodx, x[1], x[2], x[3])
                     ELSE B1_x1Face[x]]
  /\ B2_x2Face' = [x \in DOMAIN B2_x2Face |->
                     IF x \in Step4bFaces2
                     THEN CT_B2(B2_x2Face, emf1', emf3', hdtodx, x[1], x[2], x[3])
                     ELSE B2_x2Face[x]]
  /\ B3_x3Face' = [x \in DOMAIN B3_x3Face |->
                     IF x \in Step4bFaces3
                     THEN CT_B3(B3_x3Face, emf1', emf2', hdtodx, x[1], x[2], x[3])
                     ELSE B3_x3Face[x]]
  /\ UNCHANGED <<cfg, pc, stepNo, U, U0, B1i, B2i, B3i,
                 dhalf, phalf, remapEyiib, remapEyoib, dtodx, seed, periodic,
                 Ul_x1Face, Ur_x1Face, Ul_x2Face, Ur_x2Face, Ul_x3Face,
                 Ur_x3Face>>
  /\ UNCHANGED frest
  /\ UNCHANGED lvars

InitHalfB ==
  /\ cfg \in MagConfigs
  /\ LimUnset
  /\ life = "ready"
  /\ pc = "idle"
  /\ phase = 0
  /\ stepNo = 0
  /\ trace = <<>>
  /\ stale = [a \in ArrayNames |-> {}]
  /\ etaDep = [a \in ArrayNames |-> {}]
  /\ wrote = [a \in ArrayNames |-> [q \in 1..NPhases |-> {}]]
  /\ etah = EtahInit
  /\ etahMiss = {}
  /\ calls = {}
  /\ argStale = FALSE
  /\ ptr = [a \in ScratchNames |-> 0]
  /\ heap = {}
  /\ nextBlk = 1
  /\ allocN = GridN
  /\ attempts = 0
  /\ failed = ""
  /\ errmsg = <<>>
  /\ touched = FALSE
  /\ dblFree = FALSE
  /\ seed \in Seeds
  /\ periodic = FALSE
  /\ dtodx \in {<<2, 4, 6>>, <<4, 2, 2>>}
  /\ \E m \in Monopoles :
       /\ B1i = [x \in GridBox |-> CurlAt(seed, dtodx, 1, x) + m * x[3]]
       /\ B2i = [x \in GridBox |-> CurlAt(seed, dtodx, 2, x)]
       /\ B3i = [x \in GridBox |-> CurlAt(seed, dtodx, 3, x)]
  /\ U = [x \in Box2 |->
            [d  |-> 1024 + Rnd(seed, 1, x), M1 |-> Rnd(seed, 2, x),
             M2 |-> Rnd(seed, 3, x), M3 |-> Rnd(seed, 4, x),
             E  |-> Rnd(seed, 5, x), s  |-> Rnd(seed, 6, x),
             B1c |-> Half(B1i[x] + B1i[x[1], x[2], x[3] + 1]),
             B2c |-> Half(B2i[x] + B2i[x[1], x[2] + 1, x[3]]),
             B3c |-> Half(B3i[x] + B3i[x[1] + 1, x[2], x[3]])]]
  /\ U0 = U
  /\ x1Flux = <<>>
  /\ x2Flux = <<>>
  /\ x3Flux = <<>>
  /\ emf1 = <<>>
  /\ emf2 = <<>>
  /\ emf3 = <<>>
  /\ emf1_cc = <<>>
  /\ emf2_cc = <<>>
  /\ emf3_cc = <<>>
  /\ dhalf = <<>>
  /\ phalf = <<>>
  /\ remapEyiib = <<>>
  /\ remapEyoib = <<>>
  /\ HalfUnset

NextHalfB ==
  \/ Steps1to3HalfB
  \/ Step4HalfB

SpecHalfB == InitHalfB /\ [][NextHalfB]_vars

\* ================================================================= SpecLim
\* The two limiters of the MHD source terms as functions of their inputs: the
\* difference of the field along the sweep axis and one transverse difference
\* of the same cell, whatever the field.  STEP 1 limits the source terms of
\* the first sweeps, STEP 5 those of the transverse corrections; Steps 2b, 3b
\* and 6c, 7c are the same statements with the axes permuted, and the left
\* and the right state of a face differ in the cell only.

MaxDb == 4

DbRange == (0 - MaxDb)..MaxDb

\* Step 1b (2b, 3b): l2, l3 of one cell
Step1bLimit ==
  /\ pc = "idle"
  /\ phase = 0
  /\ pc' = "run"
  /\ phase' = 1
  /\ l_t' = Limit(db_d, db_t)
  /\ UNCHANGED <<db_d, db_t, mdb_t>>
  /\ UNCHANGED <<cfg, stepNo>>
  /\ UNCHANGED frest
  /\ UNCHANGED nvars

\* Step 5c (6c, 7c): mdb2, mdb3 of the same cell
Step5cMinMod ==
  /\ pc = "run"
  /\ phase = 1
  /\ phase' = 5
  /\ mdb_t' = MinMod(db_d, db_t)
  /\ UNCHANGED <<db_d, db_t, l_t>>
  /\ UNCHANGED <<cfg, pc, stepNo>>
  /\ UNCHANGED frest
  /\ UNCHANGED nvars

InitLim ==
  /\ cfg \in MagConfigs
  /\ db_d \in DbRange
  /\ db_t \in DbRange
  /\ l_t = 0
  /\ mdb_t = 0
  /\ life = "ready"
  /\ pc = "idle"
  /\ phase = 0
  /\ stepNo = 0
  /\ trace = <<>>
  /\ stale = [a \in ArrayNames |-> {}]
  /\ etaDep = [a \in ArrayNames |-> {}]
  /\ wrote = [a \in ArrayNames |-> [q \in 1..NPhases |-> {}]]
  /\ etah = EtahInit
  /\ etahMiss = {}
  /\ calls = {}
  /\ argStale = FALSE
  /\ ptr = [a \in ScratchNames |-> 0]
  /\ heap = {}
  /\ nextBlk = 1
  /\ allocN = GridN
  /\ attempts = 0
  /\ failed = ""
  /\ errmsg = <<>>
  /\ touched = FALSE
  /\ dblFree = FALSE
  /\ NumUnset

NextLim ==
  \/ Step1bLimit
  \/ Step5cMinMod

SpecLim == InitLim /\ [][NextLim]_vars

\* ------------------------------------------------------ claims on the numbers
\* dt times the discrete divergence of the face-centred field in cell (k,j,i):
\* dt*((B1i[i+1]-B1i[i])/dx1 + (B2i[j+1]-B2i[j])/dx2 + (B3i[k+1]-B3i[k])/dx3)
DivB(k, j, i) ==
    dtodx[1] * (B1i[k, j, i+1] - B1i[k, j, i])
  + dtodx[2] * (B2i[k, j+1, i] - B2i[k, j, i])
  + dtodx[3] * (B3i[k+1, j, i] - B3i[k, j, i])

\* C1: a field whose discrete divergence is zero in every live cell before
\* integrate_3d_ctu has zero divergence in every live cell after it, whatever
\* the corner EMFs are (the shearing-box average of emf2 at is and ie+1
\* included), and so after any number of steps.
C1_DivergencePreserved ==
  cfg.MHD => \A x \in LiveCells : DivB(x[1], x[2], x[3]) = 0

\* two steps done in a shearing box that averaged emf2 on both x1-faces of
\* the domain, the terms of the divergence not being zero one by one
C1_Witness ==
  /\ pc = "done"
  /\ stepNo >= 2
  /\ cfg.MHD /\ cfg.SHEARING_BOX /\ cfg.ix1 /\ cfg.ox1
  /\ \E y \in Plane : /\ emf2[y[1], y[2], is] # emf2_corner(y[1], y[2], is)
                      /\ emf2[y[1], y[2], ie + 1] # emf2_corner(y[1], y[2], ie + 1)
  /\ \E x \in LiveCells : B1i[x[1], x[2], x[3] + 1] # B1i[x]
  /\ \E x \in LiveCells : B1i[x] # CurlA(seed, dtodx).B1[x]

\* C2: after every completed call with MHD, in every live cell B1c, B2c and
\* B3c are the means of the two bracketing face fields, the face fields being
\* those the CT update of the call left (Steps 11 and 12 do not write them).
C2_CellCentredIsFaceMean ==
  /\ [](pc = "done" /\ cfg.MHD =>
          \A x \in LiveCells :
            /\ 2 * U[x].B1c = B1i[x] + B1i[x[1], x[2], x[3] + 1]
            /\ 2 * U[x].B2c = B2i[x] + B2i[x[1], x[2] + 1, x[3]]
            /\ 2 * U[x].B3c = B3i[x] + B3i[x[1] + 1, x[2], x[3]])
  /\ [][pc = "run" /\ phase \in {11, 12} => UNCHANGED <<B1i, B2i, B3i>>]_vars

\* a completed MHD call in which a cell's two x1-faces differ and B1c changed
C2_Witness ==
  /\ pc = "done"
  /\ cfg.MHD
  /\ \E x \in LiveCells : /\ B1i[x] # B1i[x[1], x[2], x[3] + 1]
                          /\ U[x].B1c # U0[x].B1c
                          /\ U[x].B1c # B1i[x]

RECURSIVE Sum(_)
Sum(f) ==
  IF DOMAIN f = {} THEN 0
  ELSE LET x == CHOOSE y \in DOMAIN f : TRUE
       IN f[x] + Sum([y \in DOMAIN f \ {x} |-> f[y]])

\* the sum of one conserved variable over the live cells
Total(u, c) == Sum([x \in LiveCells |-> u[x][c]])

\* the component of the flux vector along axis n that carries variable c
FluxOf(n, c) ==
  IF c \in {"d", "E", "s"} THEN c
  ELSE IF n = 1 THEN (IF c = "M1" THEN "Mx" ELSE IF c = "M2" THEN "My" ELSE "Mz")
  ELSE IF n = 2 THEN (IF c = "M1" THEN "Mz" ELSE IF c = "M2" THEN "Mx" ELSE "My")
  ELSE (IF c = "M1" THEN "My" ELSE IF c = "M2" THEN "Mz" ELSE "Mx")

\* dt/dx times the flux of c out of the live region through its outer faces
NetOuterFlux(c) ==
    dtodx[1] * Sum([y \in Cells3(KR(0, 0), JR(0, 0), {0}) |->
                      x1Flux[y[1], y[2], ie + 1][FluxOf(1, c)]
                      - x1Flux[y[1], y[2], is][FluxOf(1, c)]])
  + dtodx[2] * Sum([y \in Cells3(KR(0, 0), {0}, IR(0, 0)) |->
                      x2Flux[y[1], je + 1, y[3]][FluxOf(2, c)]
                      - x2Flux[y[1], js, y[3]][FluxOf(2, c)]])
  + dtodx[3] * Sum([y \in Cells3({0}, JR(0, 0), IR(0, 0)) |->
                      x3Flux[ke + 1, y[2], y[3]][FluxOf(3, c)]
                      - x3Flux[ks, y[2], y[3]][FluxOf(3, c)]])

NoSources == ~cfg.StaticGravPot /\ ~cfg.CoolingFunc /\ ~cfg.SHEARING_BOX
               /\ ~cfg.SELF_GRAVITY

Conserved == {"d", "M1", "M2", "M3", "E", "s"}

\* C3: without source terms one step changes the sums of d, M1, M2, M3, E and
\* s over the live cells by the net flux through the outer faces only, and in
\* a periodic domain (equal fluxes on opposite outer faces) not at all.
C3_Conservation ==
  pc = "done" /\ NoSources =>
    \A c \in Conserved :
      /\ Total(U, c) = Total(U0, c) - NetOuterFlux(c)
      /\ periodic => Total(U, c) = Total(U0, c)

\* a completed step without sources in an open domain: the sums changed, and
\* fluxes through interior faces were not zero
C3_Witness ==
  /\ pc = "done"
  /\ NoSources
  /\ ~periodic
  /\ \A c \in Conserved : Total(U, c) # Total(U0, c)
  /\ \E x \in LiveCells : /\ x[3] < ie
                          /\ x1Flux[x[1], x[2], x[3] + 1].d # 0
                          /\ x1Flux[x[1], x[2], x[3] + 1].Mx # 0

\* =========================================================== claims (Spec)
Completed == pc = "done"

WrittenSoFar(a) == UNION {wrote[a][q] : q \in 1..NPhases}

\* C5: within a step every element a phase reads was written earlier in the
\* same step (or is grid input): nothing written in the step derives from the
\* leftover contents of a scratch array; the first sweeps write their fluxes
\* on is-1..ie+2 along the sweep axis and two cells beyond the live range on
\* each transverse axis.
C5_WriteBeforeRead ==
  (pc \in {"run", "done"}) =>
    /\ \A a \in ArrayNames : stale[a] \cap WrittenSoFar(a) = {}
    /\ \A a \in GridNames : stale[a] = {}
    /\ (phase > 1) =>
         wrote["x1Flux"][1] = Cells3(KR(-2, 2), JR(-2, 2), (is - 1)..(ie + 2))
    /\ (phase > 2) =>
         wrote["x2Flux"][2] = Cells3(KR(-2, 2), (js - 1)..(je + 2), IR(-2, 2))
    /\ (phase > 3) =>
         wrote["x3Flux"][3] = Cells3((ks - 1)..(ke + 2), JR(-2, 2), IR(-2, 2))

C5_Witness ==
  /\ Completed
  /\ cfg.MHD /\ cfg.H_CORRECTION /\ cfg.StaticGravPot /\ cfg.CoolingFunc
  /\ wrote["emf1"][10] # {}
  /\ stale["x1Flux"] # {}
  /\ stale["x1Flux"] \cap WrittenSoFar("x1Flux") = {}

\* --------------------------------------------------------------------- C4
IsIncreasing(t) == \A m, n \in DOMAIN t : m < n => t[m] < t[n]

\* phases that have code to run in configuration c
ActivePhases(c) ==
  {1, 2, 3, 5, 6, 7, 9, 12}
  \cup (IF c.MHD THEN {4, 10} ELSE {})
  \cup (IF c.MHD \/ c.StaticGravPot \/ c.CoolingFunc THEN {8} ELSE {})
  \cup (IF c.SHEARING_BOX \/ c.StaticGravPot \/ c.SELF_GRAVITY \/ c.CoolingFunc
        THEN {11} ELSE {})

\* C4 (as stated): in every configuration a completed call has executed all
\* twelve phases, in the order 1 through 12.
C4_AllTwelveInOrder ==
  Completed => trace = <<1, 2, 3, 4, 5, 6, 7, 8, 9, 10, 11, 12>>

\* C4 (amended): the phases that run do so in strictly increasing order, and a
\* completed call has run exactly the phases its configuration gives code to:
\* 1,2,3,5,6,7,9,12 always; 4 and 10 only with MHD; 8 only with MHD or a
\* registered StaticGravPot or CoolingFunc; 11 only with a configured source
\* term (SHEARING_BOX, StaticGravPot, SELF_GRAVITY or CoolingFunc).
C4_ActivePhasesInOrder ==
  /\ IsIncreasing(trace)
  /\ Completed => SeqSet(trace) = ActivePhases(cfg)

C4_Witness ==
  /\ Completed
  /\ ~cfg.MHD /\ ~cfg.StaticGravPot /\ ~cfg.CoolingFunc
  /\ trace = <<1, 2, 3, 5, 6, 7, 9, 12>>

\* --------------------------------------------------------------------- C6
AllowedRewrites ==
  {<<"x1Flux", 1, 9>>, <<"x2Flux", 2, 9>>, <<"x3Flux", 3, 9>>,
   <<"Ul_x1Face", 1, 5>>, <<"Ur_x1Face", 1, 5>>,
   <<"Ul_x2Face", 2, 6>>, <<"Ur_x2Face", 2, 6>>,
   <<"Ul_x3Face", 3, 7>>, <<"Ur_x3Face", 3, 7>>,
   <<"B1_x1Face", 1, 4>>, <<"B2_x2Face", 2, 4>>, <<"B3_x3Face", 3, 4>>,
   <<"emf1_cc", 4, 8>>, <<"emf2_cc", 4, 8>>, <<"emf3_cc", 4, 8>>,
   <<"emf1", 4, 10>>, <<"emf2", 4, 10>>, <<"emf3", 4, 10>>,
   <<"U", 11, 12>>}

Arrays3D == (ArrayNames \ SeqSet(Mhd1D)) \ SeqSet(Vec1D)

\* C6 (as stated): no two phases write the same array at overlapping indices.
C6_NoTwoPhasesOverlap ==
  \A a \in {"x1Flux", "x2Flux", "x3Flux", "Ul_x1Face", "Ur_x1Face",
            "Ul_x2Face", "Ur_x2Face", "Ul_x3Face", "Ur_x3Face",
            "emf1", "emf2", "emf3", "emf1_cc", "emf2_cc", "emf3_cc",
            "B1_x1Face", "B2_x2Face", "B3_x3Face", "U", "B1i", "B2i", "B3i"} :
    \A q1, q2 \in {q \in 1..NPhases : wrote[a][q] # {}} :
      q1 < q2 => wrote[a][q1] \cap wrote[a][q2] = {}

\* C6 (amended): an element of a 3D scratch or grid array is written by at most
\* two phases of a step, and only in these pairs: x?Flux by its first sweep and
\* Step 9, Ul/Ur_x?Face by its first sweep and its transverse correction
\* (Steps 5-7), B?_x?Face by its first sweep and Step 4, emf?_cc by Steps 4 and
\* 8, emf? by Steps 4 and 10, U by Steps 11 and 12; every other array (B?i,
\* eta?, dhalf, phalf, remapEy, x?MassFlux) is written by one phase only.
C6_RewritesOnlyInPairs ==
  \A a \in Arrays3D :
    LET ph == {q \in 1..NPhases : wrote[a][q] # {}}
    IN /\ \A q1, q2 \in ph :
            (q1 < q2 /\ wrote[a][q1] \cap wrote[a][q2] # {})
              => <<a, q1, q2>> \in AllowedRewrites
       /\ \A q1, q2, q3 \in ph :
            (q1 < q2 /\ q2 < q3)
              => wrote[a][q1] \cap wrote[a][q2] \cap wrote[a][q3] = {}

C6_Witness ==
  /\ Completed
  /\ cfg.MHD /\ cfg.StaticGravPot
  /\ \A t \in AllowedRewrites : wrote[t[1]][t[2]] \cap wrote[t[1]][t[3]] # {}
  /\ wrote["B1i"][10] # {}

\* --------------------------------------------------------------------- C7
\* C7 (as stated): the step is stateless between calls: whatever the scratch
\* arrays and etah held when the call started, the final grid state and the
\* arguments handed to every collaborator are the same.
C7_Stateless ==
  Completed =>
    /\ \A a \in GridNames : stale[a] = {} /\ etaDep[a] = {}
    /\ ~argStale

\* --------------------------------------------------------------------- C8
\* C8 (as stated): with H_CORRECTION, etah has been assigned for the face at
\* hand before every GET_FLUXES call, in the first sweeps (Steps 1d, 2d, 3d)
\* and in Step 9 alike.
C8_EtahSetPerFace ==
  cfg.H_CORRECTION => etahMiss = {}

\* --------------------------------------------------------------------- C9
Mentions(msg, a) == \E n \in DOMAIN msg : msg[n] = a

FailedIndex == CHOOSE n \in DOMAIN AllocOrder(cfg) : AllocOrder(cfg)[n] = failed

InitFailureHandled ==
  /\ pc = "fatal"
  /\ attempts = FailedIndex
  /\ \A n \in DOMAIN AllocOrder(cfg) :
       n >= FailedIndex => ptr[AllocOrder(cfg)[n]] = 0
  /\ heap = {}
  /\ ~dblFree

\* C9 (as stated): a failed allocation in integrate_init_3d ends the
\* allocations, releases the arrays allocated so far and raises ath_error with
\* a message that identifies the failed allocation.
C9_MessageIdentifiesAllocation ==
  (life = "failed") => (InitFailureHandled /\ Mentions(errmsg, failed))

\* C9 (amended): a failed allocation in integrate_init_3d ends the allocations
\* (none is attempted after it), releases every array allocated so far and
\* raises the fatal ath_error, with the one message "[integrate_init]: malloc
\* returned a NULL pointer" whichever allocation failed: the message names the
\* routine, not the array.
C9_GenericMessage ==
  (life = "failed") =>
     /\ InitFailureHandled
     /\ errmsg = ErrMsgInit
     /\ Mentions(errmsg, "[integrate_init]:")
     /\ ~Mentions(errmsg, failed)

C9_Witness ==
  /\ life = "failed"
  /\ cfg.MHD
  /\ failed = "x1Flux"
  /\ attempts > Len(Emf3D)
  /\ nextBlk > attempts

\* -------------------------------------------------------------------- C10
\* the module is not initialised, or was initialised for a smaller grid
Mismatch ==
  \/ life = "new"
  \/ \E d \in 1..3 : allocN[d] < GridN[d]

\* C10 (as stated): a step invoked without a successful init, or on a grid
\* larger than the sizes given to init, ends in a fatal error before any
\* scratch or grid array is accessed.
C10_MismatchIsFatal ==
  Mismatch => (pc \in {"idle", "fatal"} /\ ~touched)

\* -------------------------------------------------------------------- C11
\* the blocks the successful init obtained: one per array of AllocOrder
Allocated == {ptr[a] : a \in SeqSet(AllocOrder(cfg))}

\* C11: after one successful integrate_init_3d followed by one
\* integrate_destruct_3d every array that init allocated for the active
\* configuration has been freed exactly once (no block is left on the heap, no
\* block was freed that was not on it, and the allocated arrays hold distinct
\* non-NULL blocks); the steps in between allocate and free nothing.
C11_AllocatedFreedOnce ==
  /\ [](life = "destroyed" =>
          /\ heap = {}
          /\ ~dblFree
          /\ 0 \notin Allocated
          /\ Cardinality(Allocated) = Len(AllocOrder(cfg))
          /\ FreedBlocks(ptr, cfg) = Allocated)
  /\ [][(life = "ready" /\ life' = "ready") =>
          UNCHANGED <<heap, ptr, nextBlk, allocN, dblFree>>]_vars

C11_Witness ==
  /\ life = "destroyed"
  /\ stepNo = MaxSteps
  /\ cfg.MHD /\ cfg.H_CORRECTION /\ cfg.SHEARING_BOX
  /\ Cardinality(Allocated) = Len(AllocOrder(cfg))
  /\ nextBlk = Len(AllocOrder(cfg)) + 1

\* -------------------------------------------------------------------- C12
Zero(a) == \A x \in DOMAIN a : a[x] = 0
ZeroB(a) == \A x \in DOMAIN a : a[x].By = 0 /\ a[x].Bz = 0

\* every face field and every cell-centred field of the grid is zero
NoField ==
  /\ Zero(B1i) /\ Zero(B2i) /\ Zero(B3i)
  /\ \A x \in DOMAIN U : U[x].B1c = 0 /\ U[x].B2c = 0 /\ U[x].B3c = 0

\* the EMFs, the half-step face fields, and the field components of the
\* interface states and of the fluxes, as far as the step has filled them
NoFieldInScratch ==
  /\ Zero(emf1_cc) /\ Zero(emf2_cc) /\ Zero(emf3_cc)
  /\ Zero(emf1) /\ Zero(emf2) /\ Zero(emf3)
  /\ Zero(B1_x1Face) /\ Zero(B2_x2Face) /\ Zero(B3_x3Face)
  /\ ZeroB(Ul_x1Face) /\ ZeroB(Ur_x1Face) /\ ZeroB(Ul_x2Face)
  /\ ZeroB(Ur_x2Face) /\ ZeroB(Ul_x3Face) /\ ZeroB(Ur_x3Face)
  /\ ZeroB(x1Flux) /\ ZeroB(x2Flux) /\ ZeroB(x3Flux)

\* C12: with MHD, if every B?i and every B?c is zero before a step and the
\* Riemann solver returns zero By and Bz flux components for zero input
\* fields, then the cell-centred EMFs, the corner EMFs, the half-step face
\* fields, B?i and B?c are zero throughout and after the step, and so after
\* any number of steps.
C12_HydroDegeneracy == NoField => [](NoField /\ NoFieldInScratch)

\* two steps done without a field, the gas having moved, with EMFs and
\* half-step fields computed in both
C12_Witness ==
  /\ pc = "done"
  /\ stepNo = MaxSteps
  /\ NoField /\ NoFieldInScratch
  /\ emf1 # <<>> /\ emf2_cc # <<>> /\ B3_x3Face # <<>>
  /\ \E x \in LiveCells : x1Flux[x].d # 0 /\ x1Flux[x].My # 0
  /\ \E x \in LiveCells : U[x].M1 # 0 /\ U[x].M2 # U0[x].M2

\* ---------------------------------------------------------------- C13
\* the potential at the centre of a live cell
PhiC(x) == StaticGravPot(2 * x[3], 2 * x[2], 2 * x[1])

\* the sum over the live cells of E + d*phi_c
TotalEPhi(u) == Sum([x \in LiveCells |-> u[x].E + u[x].d * PhiC(x)])

\* dt/dx times (mass flux times face potential) out of the live region
\* through its outer faces
OuterPotFlux ==
    dtodx[1] * Sum([y \in Cells3(KR(0, 0), JR(0, 0), {0}) |->
        x1Flux[y[1], y[2], ie + 1].d * StaticGravPot(2*ie + 1, 2*y[2], 2*y[1])
        - x1Flux[y[1], y[2], is].d * StaticGravPot(2*is - 1, 2*y[2], 2*y[1])])
  + dtodx[2] * Sum([y \in Cells3(KR(0, 0), {0}, IR(0, 0)) |->
        x2Flux[y[1], je + 1, y[3]].d * StaticGravPot(2*y[3], 2*je + 1, 2*y[1])
        - x2Flux[y[1], js, y[3]].d * StaticGravPot(2*y[3], 2*js - 1, 2*y[1])])
  + dtodx[3] * Sum([y \in Cells3({0}, JR(0, 0), IR(0, 0)) |->
        x3Flux[ke + 1, y[2], y[3]].d * StaticGravPot(2*y[3], 2*y[2], 2*ke + 1)
        - x3Flux[ks, y[2], y[3]].d * StaticGravPot(2*y[3], 2*y[2], 2*ks - 1)])

OnlyStaticPot == cfg.StaticGravPot /\ ~cfg.CoolingFunc /\ ~cfg.SHEARING_BOX
                 /\ ~cfg.SELF_GRAVITY

\* C13: with a static potential and no other source term, Step 11a and
\* Step 12 together change the sum over the live cells of E + d*phi_c only
\* by the energy flux and the mass flux times face potential on the outer
\* faces: every interior face cancels between its two cells.
C13_PotentialEnergyConserved ==
  pc = "done" /\ OnlyStaticPot =>
    TotalEPhi(U) = TotalEPhi(U0) - NetOuterFlux("E") - OuterPotFlux

\* a completed step under the potential alone: mass crossed an interior face
\* between two cells of different potential, and the sum of E alone changed
\* by more than the outer energy flux
C13_Witness ==
  /\ pc = "done"
  /\ OnlyStaticPot
  /\ Total(U, "E") # Total(U0, "E") - NetOuterFlux("E")
  /\ \E x \in LiveCells :
       /\ x[3] < ie
       /\ x1Flux[x[1], x[2], x[3] + 1].d # 0
       /\ PhiC(x) # PhiC(<<x[1], x[2], x[3] + 1>>)
       /\ U[x].E # U0[x].E

\* ---------------------------------------------------------------- C14
\* C14 (as stated): the callbacks are nullable in every configuration: no
\* phase of a running step invokes StaticGravPot or CoolingFunc while it is
\* NULL, and no call of a NULL callback has been made.
C14_CallbacksNullable ==
  /\ (pc = "run" /\ phase \in 1..NPhases) =>
        ~NullCallee(PhaseOps(phase, cfg), cfg)
  /\ \A p \in 1..NPhases :
       /\ ~cfg.StaticGravPot => <<p, "StaticGravPot">> \notin calls
       /\ ~cfg.CoolingFunc => <<p, "CoolingFunc">> \notin calls

\* ---------------------------------------------------------------- C15
CornerOps == {integrate_emf1_corner, integrate_emf2_corner,
              integrate_emf3_corner}

FluxNames == {"x1Flux", "x2Flux", "x3Flux"}

\* the phase before phase q that last wrote element y of array a in this step
\* (0: none)
LastWriter(a, y, q) ==
  LET ps == {p \in 1..(q - 1) : y \in wrote[a][p]}
  IN IF ps = {} THEN 0 ELSE CHOOSE p \in ps : \A r \in ps : r <= p

\* the elements of the corner array a that the field update of phase q reads
Consumed(q, a, fields) ==
  LET ops == PhaseOps(q, cfg)
  IN UNION {UNION {UNION {Src(x, r) : x \in ops[n].W} :
                     r \in {s \in ops[n].reads : s.arr = a}} :
              n \in {m \in DOMAIN ops : ops[m].arr \in fields}}

\* the phases that last wrote the inputs of corner element x of routine e
\* before phase q
BuiltFrom(e, x, q, names) ==
  UNION {{LastWriter(r.arr, y, q) : y \in Src(x, r)} :
           r \in {s \in e.reads : s.arr \in names}}

\* C15: every corner EMF element the half-step update (Step 4b) reads is built
\* from first-sweep fluxes (Steps 1-3) and from the cell-centred EMFs Step 4a
\* computed from the start-of-step U; every element the full-step update
\* (Step 10b) reads is built from fluxes last written by Step 9 and
\* cell-centred EMFs last written by Step 8b, although the corner routines
\* called in Step 10a also recompute elements from first-sweep fluxes.
C15_TemporalSplit ==
  /\ (cfg.MHD /\ pc \in {"run", "done"} /\ phase > 4) =>
       /\ \A p \in 1..4 : wrote["U"][p] = {}
       /\ \A e \in CornerOps :
            \A x \in Consumed(4, e.arr, {"B1_x1Face", "B2_x2Face", "B3_x3Face"}) :
              /\ x \in e.W
              /\ BuiltFrom(e, x, 4, FluxNames) \subseteq 1..3
              /\ \A r \in e.reads : \A y \in Src(x, r) :
                   r.arr \notin FluxNames => y \in wrote[r.arr][4]
  /\ (cfg.MHD /\ pc \in {"run", "done"} /\ phase > 10) =>
       \A e \in CornerOps :
         /\ \A x \in Consumed(10, e.arr, {"B1i", "B2i", "B3i"}) :
              /\ x \in e.W
              /\ BuiltFrom(e, x, 10, FluxNames) = {9}
              /\ BuiltFrom(e, x, 10, {"emf1_cc", "emf2_cc", "emf3_cc"}) = {8}
         /\ \E x \in e.W : BuiltFrom(e, x, 10, FluxNames) \cap 1..3 # {}
         /\ \E x \in e.W :
              4 \in BuiltFrom(e, x, 10, {"emf1_cc", "emf2_cc", "emf3_cc"})

\* a completed MHD step: both field updates read corner EMFs, and Step 9
\* rewrote fewer flux elements than the first sweeps had written
C15_Witness ==
  /\ pc = "done"
  /\ cfg.MHD
  /\ Consumed(4, "emf1", {"B2_x2Face", "B3_x3Face"}) # {}
  /\ Consumed(10, "emf1", {"B2i", "B3i"}) # {}
  /\ wrote["x2Flux"][9] # {}
  /\ wrote["x2Flux"][9] # wrote["x2Flux"][2]
  /\ wrote["emf1_cc"][8] # wrote["emf1_cc"][4]
  /\ wrote["B1i"][10] # {}

\* ---------------------------------------------------------------- C16
\* axis after axis n in the cyclic order 1, 2, 3
Cyc(n) == (n % 3) + 1

\* element x = <<k, j, i>> moved one cell down along axis n
Below(x, n) == [x EXCEPT ![4 - n] = x[4 - n] - 1]

FluxAlong(n) == IF n = 1 THEN x1Flux ELSE IF n = 2 THEN x2Flux ELSE x3Flux

CcOf(n) == IF n = 1 THEN emf1_cc ELSE IF n = 2 THEN emf2_cc ELSE emf3_cc

\* the corner EMF along axis n as the spec words it, with a and b the two
\* axes after n in cyclic order: the a-flux of By is -E_n, the b-flux of Bz
\* is +E_n; each derivative term is (face EMF - cell-centred EMF) on the
\* lower side where the mass flux through the adjacent face is positive, on
\* the upper side where it is negative, their mean where it is zero
CornerEMF(n, x) ==
  LET a   == Cyc(n)
      b   == Cyc(a)
      FA  == FluxAlong(a)
      FB  == FluxAlong(b)
      cc  == CcOf(n)
      xa  == Below(x, a)
      xb  == Below(x, b)
      xab == Below(xa, b)
      EA(y) == 0 - FA[y].By
      EB(y) == FB[y].Bz
      pick(m, lo, hi) == CASE m > 0 -> lo
                           [] m < 0 -> hi
                           [] m = 0 -> (lo + hi) \div 2
      t1 == pick(FA[xb].d, EB(xa) - cc[xab], EB(x) - cc[xb])
      t2 == pick(FA[x].d, EB(xa) - cc[xa], EB(x) - cc[x])
      t3 == pick(FB[xa].d, EA(xb) - cc[xab], EA(x) - cc[xa])
      t4 == pick(FB[x].d, EA(xb) - cc[xb], EA(x) - cc[x])
  IN (EB(x) + EB(xa) + EA(x) + EA(xb) + t1 + t2 + t3 + t4) \div 4

\* C16: the three corner routines are one formula under the cyclic
\* permutation of the axes: 0.25 * (the four bracketing face EMFs plus the
\* four derivative terms, each upwinded by the sign of the mass flux on the
\* adjacent face), and Step 10a leaves these values in emf1, emf2 and emf3.
C16_CornerUpwinding ==
  (cfg.MHD /\ pc = "run" /\ phase >= 10) =>
    /\ \A x \in Edges1 : emf1_corner(x[1], x[2], x[3]) = CornerEMF(1, x)
    /\ \A x \in Edges2 : emf2_corner(x[1], x[2], x[3]) = CornerEMF(2, x)
    /\ \A x \in Edges3 : emf3_corner(x[1], x[2], x[3]) = CornerEMF(3, x)
    /\ (phase = 11) =>
         /\ \A x \in Edges1 : emf1[x] = CornerEMF(1, x)
         /\ \A x \in Edges3 : emf3[x] = CornerEMF(3, x)
         /\ ~cfg.SHEARING_BOX => \A x \in Edges2 : emf2[x] = CornerEMF(2, x)

\* after Step 10a: around the edges of the live cells there are faces with
\* positive, negative and zero mass flux, and an edge where the two sides of
\* a derivative term differ
C16_Witness ==
  /\ cfg.MHD /\ pc = "run" /\ phase = 11
  /\ \E x \in Edges1 : x2Flux[x].d > 0 /\ emf1[x] # 0
  /\ \E x \in Edges1 : x2Flux[x].d < 0
  /\ \E x \in Edges1 : x2Flux[x].d = 0
  /\ \E x \in Edges3 : x1Flux[x].d = 0 /\ emf3[x] # 0
  /\ \E x \in Edges1 :
       /\ x2Flux[x].d # 0
       /\ x3Flux[Below(x, 2)].Bz - emf1_cc[Below(x, 2)] # x3Flux[x].Bz - emf1_cc[x]

\* ---------------------------------------------------------------- C17
Min2(a, b) == IF a <= b THEN a ELSE b

Mag(a) == IF a >= 0 THEN a ELSE 0 - a

Sgn(a) == IF a > 0 THEN 1 ELSE IF a < 0 THEN 0 - 1 ELSE 0

\* C17: the limited difference of the first sweeps is max(0, min(a, -db_t))
\* for a = db_d >= 0 and min(0, max(a, -db_t)) for a < 0; it is zero or has
\* the sign of a, its magnitude is at most |a| and at most |db_t|, and it is
\* zero whenever db_t is zero or has the sign of a.
C17_FirstSweepLimiter ==
  (phase >= 1) =>
    /\ l_t = IF db_d >= 0 THEN Max2(0, Min2(db_d, 0 - db_t))
                          ELSE Min2(0, Max2(db_d, 0 - db_t))
    /\ l_t = 0 \/ Sgn(l_t) = Sgn(db_d)
    /\ Mag(l_t) <= Mag(db_d)
    /\ Mag(l_t) <= Mag(db_t)
    /\ (db_t = 0 \/ Sgn(db_t) = Sgn(db_d)) => l_t = 0

\* the limiter has acted on differences of opposite sign and kept the
\* transverse one, the smaller
C17_Witness ==
  /\ phase = 1
  /\ db_d > 0
  /\ db_t < 0
  /\ l_t = 0 - db_t
  /\ l_t < db_d

\* ---------------------------------------------------------------- C18
\* min_mod: the argument of smaller magnitude when both have the same strict
\* sign, and zero otherwise
min_mod(x, y) ==
  IF x > 0 /\ y > 0 THEN Min2(x, y)
  ELSE IF x < 0 /\ y < 0 THEN Max2(x, y)
  ELSE 0

\* C18: the limiter of the transverse corrections is min_mod(-db_d, db_t):
\* max(db_t, -db_d) for db_d > 0 and db_t < 0, min(db_t, -db_d) for db_d < 0
\* and db_t > 0, and zero otherwise.
C18_TransverseLimiter ==
  (phase = 5) =>
    /\ mdb_t = min_mod(0 - db_d, db_t)
    /\ (db_d > 0 /\ db_t < 0) => mdb_t = Max2(db_t, 0 - db_d)
    /\ (db_d < 0 /\ db_t > 0) => mdb_t = Min2(db_t, 0 - db_d)
    /\ ~(db_d > 0 /\ db_t < 0) /\ ~(db_d < 0 /\ db_t > 0) => mdb_t = 0
    /\ Mag(mdb_t) <= Mag(db_d)
    /\ Mag(mdb_t) <= Mag(db_t)

\* the limiter has acted on differences of opposite sign and kept the one of
\* smaller magnitude, the transverse one
C18_Witness ==
  /\ phase = 5
  /\ db_d < 0
  /\ db_t > 0
  /\ mdb_t = db_t
  /\ mdb_t < 0 - db_d

\* ---------------------------------------------------------------- C19
MomNames == {"M1", "M2", "M3"}

\* the global momentum that component c of an x_n-sweep vector carries, as the
\* loads of Steps 1a, 2a, 3a put it there: FluxOf read backwards
Glob(n, c) == CHOOSE g \in MomNames : FluxOf(n, g) = c

\* dt/dx_m times the difference of flux component f across cell y along axis m
Dm(m, f, y) ==
  IF m = 1 THEN D1(f, y[1], y[2], y[3])
  ELSE IF m = 2 THEN D2(f, y[1], y[2], y[3])
  ELSE D3(f, y[1], y[2], y[3])

\* half the flux divergence of global momentum g in cell y, over the axes S
HalfFluxGrad(S, g, y) ==
  Sum([m \in S |-> Half(Dm(m, FluxOf(m, g), y))])

BOf(u, g) == IF g = "M1" THEN u.B1c ELSE IF g = "M2" THEN u.B2c ELSE u.B3c

dbOf(n, y) ==
  IF n = 1 THEN db1(y[1], y[2], y[3])
  ELSE IF n = 2 THEN db2(y[1], y[2], y[3])
  ELSE db3(y[1], y[2], y[3])

\* the Coriolis terms (FARGO) on global momentum g
Coriolis(u, g) ==
  IF ~cfg.SHEARING_BOX THEN 0
  ELSE IF g = "M1" THEN dt * Omega * u.M2
  ELSE IF g = "M2" THEN 0 - Quarter(dt * Omega * u.M1)
  ELSE 0

FaceL(n) == IF n = 1 THEN Ul_x1Face ELSE IF n = 2 THEN Ul_x2Face ELSE Ul_x3Face

FaceR(n) == IF n = 1 THEN Ur_x1Face ELSE IF n = 2 THEN Ur_x2Face ELSE Ur_x3Face

\* what Steps 5-7 add to the component of the x_n-interface state of cell y
\* that carries g, when flux and state are paired by global momentum
Transverse(n, g, y) ==
  LET u == P(U, y[1], y[2], y[3])
  IN 0 - HalfFluxGrad({1, 2, 3} \ {n}, g, y) + Half(BOf(u, g) * dbOf(n, y))
       + (IF n = 1 THEN 0 ELSE Coriolis(u, g))

\* C19: wherever a flux component is applied to a state, the flux component
\* and the state component carry the same global momentum: in the transverse
\* corrections of Steps 5-7 (left state from the cell below the face, right
\* state from the cell of the face), in the half-step momenta of Step 8b, in
\* the predictor of the shearing-box source of Step 11a and in the update of
\* Step 12; the load permutation and its inverse compose to the identity.
C19_PermutationConsistency ==
  [][/\ \A n \in 1..3 : \A g \in MomNames : Glob(n, FluxOf(n, g)) = g
     /\ \A n \in 1..3 : \A c \in {"Mx", "My", "Mz"} : FluxOf(n, Glob(n, c)) = c
     /\ (phase = 5 /\ phase' = 8) =>
          \A n \in 1..3 : \A x \in LiveCells : \A c \in {"Mx", "My", "Mz"} :
            /\ (FaceL(n))'[x][c] - FaceL(n)[x][c]
                 = Transverse(n, Glob(n, c), Below(x, n))
            /\ (FaceR(n))'[x][c] - FaceR(n)[x][c]
                 = Transverse(n, Glob(n, c), x)
     /\ (phase = 8 /\ phase' = 9) =>
          \A x \in LiveCells :
            LET h == Step8b_half(U[x], cfg, x[1], x[2], x[3])
                e(g) == U[x][g] - HalfFluxGrad({1, 2, 3}, g, x)
                          + Coriolis(U[x], g)
            IN h.M1h = e("M1") /\ h.M2h = e("M2") /\ h.M3h = e("M3")
     /\ (phase = 11 /\ cfg.SHEARING_BOX) =>
          \A x \in LiveCells :
            LET s    == ShearingBoxSource(U[x], x[1], x[2], x[3])
                M1e  == U[x].M1 - HalfFluxGrad({1, 2, 3}, "M1", x)
                dM2e == U[x].M2 - HalfFluxGrad({1, 2, 3}, "M2", x)
            IN /\ s.M1 = U[x].M1 + (2 * dM2e - Half(om_dt * M1e)) * fact
               /\ s.M2 = U[x].M2 - Half(M1e + om_dt * dM2e) * fact
     /\ (phase = 12 /\ pc = "run" /\ pc' = "done") =>
          \A x \in LiveCells : \A g \in MomNames :
            U'[x][g] = U[x][g] - Sum([m \in 1..3 |-> Dm(m, FluxOf(m, g), x)])
    ]_vars

\* after Steps 5-7 of a step with fluxes whose three momentum components
\* differ across a cell: a pairing by another permutation would show
C19_Witness ==
  /\ pc = "run"
  /\ phase = 8
  /\ \E x \in LiveCells :
       /\ Dm(2, "Mx", x) # Dm(2, "My", x)
       /\ Dm(2, "My", x) # Dm(2, "Mz", x)
       /\ Dm(1, "Mx", x) # Dm(1, "Mz", x)
       /\ Ur_x1Face[x].Mx # Ur_x1Face[x].My
       /\ Ur_x3Face[x].Mx # 0

\* ---------------------------------------------------------------- C20
Above(x, n) == [x EXCEPT ![4 - n] = x[4 - n] + 1]

EtaName(n) == IF n = 1 THEN "eta1" ELSE IF n = 2 THEN "eta2" ELSE "eta3"

FluxName(n) == IF n = 1 THEN "x1Flux" ELSE IF n = 2 THEN "x2Flux" ELSE "x3Flux"

\* the nine eta elements of face x of axis n: the face itself and, for each
\* transverse axis t, the two t-faces of each of the two cells next to x
NineEta(n, x) ==
  {<<n, x>>}
  \cup UNION {{<<t, Below(x, n)>>, <<t, Above(Below(x, n), t)>>,
               <<t, x>>, <<t, Above(x, t)>>} : t \in (1..3) \ {n}}

\* the eta elements the solver call of face x of axis n reads in Step 9
EtaReads(n, x) ==
  LET ops == Step9Ops(cfg)
  IN UNION {UNION {{<<t, y>> : y \in Src(x, r)} :
                     r \in {s \in ops[m].reads : s.arr = EtaName(t)}} :
              m \in {q \in DOMAIN ops : ops[q].arr = FluxName(n)},
              t \in 1..3}

SetMax(S) == CHOOSE m \in S : \A v \in S : v <= m

\* C20: with H_CORRECTION, for every face solved in Step 9 the etah the
\* solver sees is the maximum of exactly nine eta values, those of NineEta
\* (one pattern for the three axes); each was written by Step 9a of the same
\* step, from interface states last written by the transverse correction of
\* its axis (Steps 5-7).
C20_EtahIsMaxOfNine ==
  (cfg.H_CORRECTION /\ pc = "run" /\ phase > 9) =>
    /\ \A n \in 1..3 : \A x \in wrote[FluxName(n)][9] :
         /\ EtaReads(n, x) = NineEta(n, x)
         /\ Cardinality(NineEta(n, x)) = 9
         /\ \A e \in NineEta(n, x) :
              /\ e[2] \in wrote[EtaName(e[1])][9]
              /\ \A f \in {"Ul_x", "Ur_x"} :
                   LastWriter(f \o ToString(e[1]) \o "Face", e[2], 9) = 4 + e[1]
         /\ EtahValue(EtahSeen(9, FluxName(n), x))
              = SetMax({eta(stepNo + 1, e[1], e[2]) : e \in NineEta(n, x)})
    /\ \A n \in 1..3 : wrote[FluxName(n)][9] # {}
    /\ (phase = 10) =>
         EtahValue(etah)
           = SetMax({eta(stepNo + 1, e[1], e[2]) :
                       e \in NineEta(3, <<ke + 1, je + 1, ie + 1>>)})

\* Step 9 of an H_CORRECTION build is done: etah holds a positive value, and
\* for some face the maximum is larger than the eta of the face itself
C20_Witness ==
  /\ cfg.H_CORRECTION
  /\ pc = "run"
  /\ phase = 10
  /\ EtahValue(etah) > 0
  /\ \E x \in wrote["x1Flux"][9] :
       eta(stepNo + 1, 1, x) < EtahValue(EtahSeen(9, "x1Flux", x))
  /\ \E x \in wrote["x2Flux"][9] :
       eta(stepNo + 1, 2, x) = EtahValue(EtahSeen(9, "x2Flux", x))

\* ---------------------------------------------------------------- C21
SelfG(n, x) ==
  IF n = 1 THEN SelfG_x1(x[1], x[2], x[3])
  ELSE IF n = 2 THEN SelfG_x2(x[1], x[2], x[3])
  ELSE SelfG_x3(x[1], x[2], x[3])

\* the live cells whose lower (upper) face along axis n is an outer face
LowerLayer(n) == {x \in LiveCells : Below(x, n) \notin LiveCells}
UpperLayer(n) == {x \in LiveCells : Above(x, n) \notin LiveCells}

\* dt/dx times the stress flux of momentum component c ("m1", "m2", "m3")
\* out of the live region through its outer faces
OuterStressFlux(c) ==
  Sum([n \in 1..3 |->
         dtodx[n] * (Sum([x \in UpperLayer(n) |-> SelfG(n, x)[c \o "r"]])
                     - Sum([x \in LowerLayer(n) |-> SelfG(n, x)[c \o "l"]]))])

\* C21: in Step 11b the right-face stress flux of a cell equals the left-face
\* stress flux of the next cell along the axis, for each axis and momentum
\* component (the face potential likewise), and the change of total M1, M2
\* and M3 over the live cells by self-gravity is the outer-face terms alone.
C21_SelfGravityFluxForm ==
  /\ \A n \in 1..3 : \A x \in LiveCells \cup LowerLayer(n) :
       LET r == SelfG(n, x)
           l == SelfG(n, Above(x, n))
       IN /\ r.m1r = l.m1l
          /\ r.m2r = l.m2l
          /\ r.m3r = l.m3l
          /\ r.phir = l.phil
  /\ (pc = "run" /\ phase = 12 /\ ~cfg.StaticGravPot) =>
       /\ Total(U, "M1") = Total(U0, "M1") - OuterStressFlux("m1")
       /\ Total(U, "M2") = Total(U0, "M2") - OuterStressFlux("m2")
       /\ Total(U, "M3") = Total(U0, "M3") - OuterStressFlux("m3")

\* Step 11b has acted on a non-periodic potential: the total momentum has
\* changed, an inner face carries a stress flux, a cell has changed
C21_Witness ==
  /\ pc = "run" /\ phase = 12 /\ cfg.SELF_GRAVITY /\ ~cfg.StaticGravPot
  /\ Total(U, "M1") # Total(U0, "M1")
  /\ Total(U, "M2") # Total(U0, "M2")
  /\ \E x \in LiveCells : /\ Above(x, 1) \in LiveCells
                          /\ SelfG_x1(x[1], x[2], x[3]).m2r # 0
                          /\ SelfG_x1(x[1], x[2], x[3]).m1r # 0
                          /\ U[x].M3 # U0[x].M3

\* ---------------------------------------------------------------- C22
\* C22: from one pair (db_d, db_t) the limiter of the first sweeps and the
\* limiter of the transverse corrections give opposite numbers,
\* l_t = -mdb_t.
C22_LimiterEquivalence ==
  (phase = 5) => l_t = 0 - mdb_t

\* both limiters have acted on a negative sweep-axis difference and returned
\* a non-zero value, the sweep-axis difference itself
C22_Witness ==
  /\ phase = 5
  /\ db_d < 0
  /\ db_t > 0 - db_d
  /\ l_t = db_d
  /\ mdb_t = 0 - db_d

\* ---------------------------------------------------------------- C23
\* the four face EMFs that bracket corner x of axis n and the four
\* cell-centred EMFs next to it all equal e
UniformAt(n, x, e) ==
  LET k == x[1]
      j == x[2]
      i == x[3]
  IN IF n = 1
     THEN /\ \A c \in {<<k-1, j-1, i>>, <<k-1, j, i>>, <<k, j-1, i>>, x} :
               emf1_cc[c] = e
          /\ x3Flux[k, j, i].Bz = e /\ x3Flux[k, j-1, i].Bz = e
          /\ 0 - x2Flux[k, j, i].By = e /\ 0 - x2Flux[k-1, j, i].By = e
     ELSE IF n = 2
     THEN /\ \A c \in {<<k-1, j, i-1>>, <<k-1, j, i>>, <<k, j, i-1>>, x} :
               emf2_cc[c] = e
          /\ x1Flux[k, j, i].Bz = e /\ x1Flux[k-1, j, i].Bz = e
          /\ 0 - x3Flux[k, j, i].By = e /\ 0 - x3Flux[k, j, i-1].By = e
     ELSE /\ \A c \in {<<k, j-1, i-1>>, <<k, j-1, i>>, <<k, j, i-1>>, x} :
               emf3_cc[c] = e
          /\ x2Flux[k, j, i].Bz = e /\ x2Flux[k, j, i-1].Bz = e
          /\ 0 - x1Flux[k, j, i].By = e /\ 0 - x1Flux[k, j-1, i].By = e

\* the signs of the four mass fluxes that upwind corner x of axis n
MassFluxSigns(n, x) ==
  LET k == x[1]
      j == x[2]
      i == x[3]
  IN IF n = 1
     THEN <<Sgn(x2Flux[k-1, j, i].d), Sgn(x2Flux[k, j, i].d),
            Sgn(x3Flux[k, j-1, i].d), Sgn(x3Flux[k, j, i].d)>>
     ELSE IF n = 2
     THEN <<Sgn(x1Flux[k-1, j, i].d), Sgn(x1Flux[k, j, i].d),
            Sgn(x3Flux[k, j, i-1].d), Sgn(x3Flux[k, j, i].d)>>
     ELSE <<Sgn(x1Flux[k, j-1, i].d), Sgn(x1Flux[k, j, i].d),
            Sgn(x2Flux[k, j, i-1].d), Sgn(x2Flux[k, j, i].d)>>

\* C23: where the four bracketing face EMFs and the four adjacent
\* cell-centred EMFs of a corner all equal one value e, each of the three
\* corner routines returns e there, whatever the signs of the four mass
\* fluxes.
C23_CornerConsistency ==
  (pc = "run" /\ phase = 11 /\ cfg.MHD /\ ~cfg.SHEARING_BOX) =>
    /\ \A x \in Edges1 : UniformAt(1, x, emf1_cc[x]) => emf1[x] = emf1_cc[x]
    /\ \A x \in Edges2 : UniformAt(2, x, emf2_cc[x]) => emf2[x] = emf2_cc[x]
    /\ \A x \in Edges3 : UniformAt(3, x, emf3_cc[x]) => emf3[x] = emf3_cc[x]

\* the routines have run on uniform non-zero EMFs at corners whose mass
\* fluxes are of mixed sign and zero
C23_Witness ==
  /\ pc = "run" /\ phase = 11 /\ cfg.MHD /\ ~cfg.SHEARING_BOX
  /\ \E x \in Edges1 : /\ UniformAt(1, x, emf1_cc[x])
                       /\ emf1[x] = 32
                       /\ MassFluxSigns(1, x) = <<1, -1, 0, 1>>
  /\ \E x \in Edges2 : /\ UniformAt(2, x, emf2_cc[x])
                       /\ emf2[x] = 64
                       /\ MassFluxSigns(2, x) = <<-1, 1, 1, 0>>
  /\ \E x \in Edges3 : /\ UniformAt(3, x, emf3_cc[x])
                       /\ emf3[x] = -32
                       /\ MassFluxSigns(3, x) = <<1, -1, -1, 1>>

\* ---------------------------------------------------------------- C24
\* dt times the discrete divergence of face fields (b1, b2, b3) in cell x
DivOf(b1, b2, b3, x) ==
    dtodx[1] * (b1[x[1], x[2], x[3] + 1] - b1[x])
  + dtodx[2] * (b2[x[1], x[2] + 1, x[3]] - b2[x])
  + dtodx[3] * (b3[x[1] + 1, x[2], x[3]] - b3[x])

\* C24: after Step 4b the half-step face fields have, in every cell of
\* [ks-1..ke+1] x [js-1..je+1] x [is-1..ie+1], the discrete divergence the
\* grid face fields had there at the start of the step; zero where that was
\* zero.  All six faces of each such cell are advanced, the faces at ie+2,
\* je+2 and ke+2 included.
C24_HalfStepDivergenceFree ==
  (pc = "run" /\ phase = 5) =>
    /\ \A x \in FluxBox :
         /\ DivOf(B1_x1Face, B2_x2Face, B3_x3Face, x) = DivOf(B1i, B2i, B3i, x)
         /\ {x, <<x[1], x[2], x[3] + 1>>} \subseteq Step4bFaces1
         /\ {x, <<x[1], x[2] + 1, x[3]>>} \subseteq Step4bFaces2
         /\ {x, <<x[1] + 1, x[2], x[3]>>} \subseteq Step4bFaces3
    /\ (\A x \in FluxBox : DivOf(B1i, B2i, B3i, x) = 0)
         => \A x \in FluxBox : DivOf(B1_x1Face, B2_x2Face, B3_x3Face, x) = 0

\* Step 4b has advanced a divergence-free field: the faces at ie+2, je+2 and
\* ke+2 have changed, and the terms of the divergence are not zero one by one
C24_Witness ==
  /\ pc = "run" /\ phase = 5
  /\ \A x \in FluxBox : DivOf(B1i, B2i, B3i, x) = 0
  /\ \E x \in FluxBox : /\ x[3] = ie + 1
                        /\ B1_x1Face[x[1], x[2], ie + 2] # B1i[x[1], x[2], ie + 2]
                        /\ B1_x1Face[x[1], x[2], ie + 2] # B1_x1Face[x]
  /\ \E x \in FluxBox : /\ x[2] = je + 1
                        /\ B2_x2Face[x[1], je + 2, x[3]] # B2i[x[1], je + 2, x[3]]
  /\ \E x \in FluxBox : /\ x[1] = ke + 1
                        /\ B3_x3Face[ke + 2, x[2], x[3]] # B3i[ke + 2, x[2], x[3]]

\* ---------------------------------------------------------------- C25
\* the elements of array a written so far in the step
WrittenInStep(a) == UNION {wrote[a][q] : q \in 1..NPhases}

\* the arrays the operations of the twelve phases write
ArraysWritten ==
  UNION {{PhaseOps(p, cfg)[n].arr : n \in DOMAIN PhaseOps(p, cfg)} :
           p \in 1..NPhases}

\* C25: Steps 1-9 write neither U nor B1i, B2i, B3i; over the whole step U is
\* written at live cells only, B1i at i in is..ie+1, B2i at j in js..je+1 and
\* B3i at k in ks..ke+1 over live transverse indices only; Phi is never
\* written and no operation writes anything of the grid but U, the face
\* fields and the saved mass fluxes (so not dt or time).
C25_FrameOfStep ==
  /\ \A a \in {"U", "B1i", "B2i", "B3i"} : \A q \in 1..9 : wrote[a][q] = {}
  /\ WrittenInStep("U") \subseteq Cells3(KR(0, 0), JR(0, 0), IR(0, 0))
  /\ WrittenInStep("B1i") \subseteq Cells3(KR(0, 0), JR(0, 0), IR(0, 1))
  /\ WrittenInStep("B2i") \subseteq Cells3(KR(0, 0), JR(0, 1), IR(0, 0))
  /\ WrittenInStep("B3i") \subseteq Cells3(KR(0, 1), JR(0, 0), IR(0, 0))
  /\ WrittenInStep("Phi") = {}
  /\ ArraysWritten \subseteq
       ScratchNames \cup {"U", "B1i", "B2i", "B3i",
                          "x1MassFlux", "x2MassFlux", "x3MassFlux"}

\* a completed MHD step with self-gravity and cooling: Steps 1-9 ran, Step 10
\* wrote the faces up to ie+1, je+1 and ke+1, Steps 11 and 12 wrote U
C25_Witness ==
  /\ pc = "done"
  /\ cfg.MHD /\ cfg.SELF_GRAVITY /\ cfg.CoolingFunc
  /\ \A q \in 1..9 : wrote["U"][q] = {} /\ q \in {trace[n] : n \in DOMAIN trace}
  /\ wrote["B1i"][10] = Cells3(KR(0, 0), JR(0, 0), IR(0, 1))
  /\ wrote["B2i"][10] = Cells3(KR(0, 0), JR(0, 1), IR(0, 0))
  /\ wrote["B3i"][10] = Cells3(KR(0, 1), JR(0, 0), IR(0, 0))
  /\ wrote["U"][11] = LiveCells
  /\ wrote["U"][12] = LiveCells

\* ---------------------------------------------------------------- C26
\* the elements of array a that the operations of phase p address
Addressed(a, p) ==
  LET ops == PhaseOps(p, cfg)
  IN UNION {(IF ops[n].arr = a THEN ops[n].W ELSE {})
            \cup UNION {UNION {Src(x, r) : x \in ops[n].W} :
                          r \in {s \in ops[n].reads : s.arr = a}} :
            n \in DOMAIN ops}

\* C26: when the scratch arrays were allocated for the size of the grid
\* (with nghost = 3), every element that a phase addresses, in a grid array,
\* a 3D or 2D scratch array or a 1D scratch vector, lies within the extent
\* of its array, and no step ends in an access outside an array.
C26_IndexSafety ==
  (allocN = GridN) =>
    /\ pc # "undefined"
    /\ (pc = "run") => OpsInBounds(PhaseOps(phase, cfg), allocN)

\* a completed MHD step on matching sizes whose first sweep addressed the
\* first and the last element of B1i along x1 (offsets -3 and +3 from the
\* live range) and both ends of the 1D vector U1d
C26_Witness ==
  /\ allocN = GridN
  /\ pc = "done"
  /\ cfg.MHD
  /\ \E x \in Addressed("B1i", 1) : x[3] = ie + 3 /\ x[3] = NX1 + 2*nghost - 1
  /\ \E x \in Addressed("B1i", 1) : x[3] = is - 3 /\ x[3] = 0
  /\ <<0, 0, 0>> \in Addressed("U1d", 1)
  /\ <<0, 0, NX1 + 2*nghost - 1>> \in Addressed("U1d", 1)

\* ------------------------------------------------------------------ C27
\* the blocks still allocated that no scratch pointer refers to any more
Leaked == heap \ {ptr[a] : a \in DOMAIN ptr}

\* the scratch pointers that refer to a block already given back
Dangling == {a \in DOMAIN ptr : ptr[a] # 0 /\ ptr[a] \notin heap}

\* C27: over every sequence of integrate_init_3d and integrate_destruct_3d
\* calls no block is passed to free twice, no allocated block is lost, and
\* after a destroy no scratch pointer still holds a freed block.
C27_NoDoubleFreeNoLeak ==
  /\ ~dblFree
  /\ Leaked = {}
  /\ (life = "destroyed") => Dangling = {}

\* each part on its own, to name the call sequence that breaks it
C27_DestroyTwice == ~(life = "destroyed" /\ dblFree)
C27_InitTwice == ~(life = "ready" /\ Leaked # {})
C27_FailAfterDestroy == ~(life = "failed" /\ dblFree)


\* ------------------------------------------------------------------ C28
\* the elements of array a that the operations of phase p read
ReadsOf(a, p) ==
  LET ops == PhaseOps(p, cfg)
  IN UNION {UNION {UNION {Src(x, r) : x \in ops[n].W} :
                     r \in {s \in ops[n].reads : s.arr = a}} :
            n \in DOMAIN ops}

\* C28: in a hydrodynamic build, once integrate_init_3d has succeeded, a
\* phase that writes or reads dhalf or phalf finds the array allocated,
\* whenever StaticGravPot or CoolingFunc was registered, and every element
\* of dhalf and phalf that Step 11 reads was computed by Step 8 of the same
\* step.
C28_HalfAvailable ==
  (~cfg.MHD /\ life = "ready" /\ pc = "run") =>
    /\ \A a \in OpsArrays(PhaseOps(phase, cfg)) \cap SeqSet(Half3D) : ptr[a] # 0
    /\ (phase = 11) =>
         \A a \in SeqSet(Half3D) : ReadsOf(a, 11) \subseteq wrote[a][8]

\* the same for the builds without the shearing box
C28_HalfAvailableNoShear ==
  cfg.SHEARING_BOX \/ C28_HalfAvailable

\* Step 8 is about to write dhalf through a pointer that is still NULL
C28_LateEnrol ==
  ~(/\ ~cfg.MHD /\ ~cfg.SHEARING_BOX /\ life = "ready" /\ pc = "run"
    /\ phase = 8 /\ ptr["dhalf"] = 0
    /\ "dhalf" \in OpsArrays(PhaseOps(8, cfg)))


\* ------------------------------------------------------------------ C29
\* the half-step Coriolis source (FARGO) on the global momentum g of an
\* interface state of density dens, from the velocities of the cell u
CoriolisV(dens, u, g) ==
  IF g = "M1" THEN dens * (dt * Omega * Div(u.M2, u.d))
  ELSE IF g = "M2" THEN 0 - dens * Quarter(dt * Omega * Div(u.M1, u.d))
  ELSE 0

\* the tags under which lr_states is asked for the left and the right state
\* of the x_n sweep
TagL(n) == 77 + 4 * n
TagR(n) == 79 + 4 * n

\* what Steps 5-7 add without the shearing box
TransverseNoShear(n, g, y) ==
  LET u == P(U, y[1], y[2], y[3])
  IN 0 - HalfFluxGrad({1, 2, 3} \ {n}, g, y) + Half(BOf(u, g) * dbOf(n, y))

CoveredRange(n, lo, hi) ==
  IF n > 1 THEN (lo - nghost)..(hi + nghost) ELSE lo..hi

\* the live cells of grid g
LiveOf(g) == Cells3(g.ks..g.ke, g.js..g.je, g.is..g.ie)

\* b at the cell next to x along x_n, or b at x on an axis with a single cell
\* (whose two faces are one)
Up(g, b, x, n) ==
  IF g.Nx[n] > 1 THEN b[[x EXCEPT ![4 - n] = x[4 - n] + 1]] ELSE b[x]

====
